---------------------------- MODULE Spec2Model ----------------------------
(***************************************************************************)
(* Model of the MCP tool integration of obsidian-copilot:                  *)
(*   - the canonical tool id encoding and its regex parser,                *)
(*   - MCPClientManager (server registry and tool catalog) together with   *)
(*     MCPToolsManager.executeMCPTool,                                      *)
(*   - CopilotPlusChainRunner.streamMultimodalResponse (one user turn).     *)
(* Strings are sequences of one-character strings, so that template        *)
(* literals, the regex, includes() and toLowerCase() are computed.          *)
(***************************************************************************)
EXTENDS Integers, Sequences, FiniteSets, TLC

\* ------------------------------------------------------------------ bounds
MaxNameLen == 2
MaxChunks == 3
MaxTurns == 2
MaxTasks == 2
MaxConnectCalls == 2

\* ------------------------------------------------------------- strings
Dash == "-"
Prefix == <<"@", "m", "c", "p", "-">>
Alphabet == {"a", "b", "-"}

SeqsUpTo(S, n) == UNION {[1..k -> S] : k \in 0..n}

HasPrefix(s, p) == Len(s) >= Len(p) /\ SubSeq(s, 1, Len(p)) = p

\* String.prototype.includes
Includes(s, sub) ==
  \E i \in 1..(Len(s) - Len(sub) + 1) : SubSeq(s, i, i + Len(sub) - 1) = sub

LowerChar(c) == CASE c = "A" -> "a" [] c = "B" -> "b" [] c = "T" -> "t"
                  [] c = "M" -> "m" [] c = "C" -> "c" [] c = "P" -> "p"
                  [] OTHER -> c

\* String.prototype.toLowerCase
ToLowerCase(s) == [i \in 1..Len(s) |-> LowerChar(s[i])]

SetMin(S) == CHOOSE x \in S : \A y \in S : x <= y

\* ------------------------------------------------- canonical tool ids
\* `@mcp-${serverName}-${tool.name}`
CanonicalId(serverName, localName) == Prefix \o serverName \o <<Dash>> \o localName

\* Lengths k of the first group for which /^@mcp-(.+?)-(.+)$/ can match:
\* k >= 1 characters, then a dash, then at least one more character.
SplitPoints(rest) == {k \in 1..(Len(rest) - 2) : rest[k + 1] = Dash}

NoMatch == [ok |-> FALSE, serverName |-> <<>>, toolName |-> <<>>]

SplitAt(rest, k) ==
  [ok |-> TRUE, serverName |-> SubSeq(rest, 1, k),
   toolName |-> SubSeq(rest, k + 2, Len(rest))]

\* A first group that may be empty: the split falls on the first dash
\* after the prefix, wherever it is.
ParseFromFirstDash(toolName) ==
  LET rest == SubSeq(toolName, Len(Prefix) + 1, Len(toolName))
      dashes == {k \in 1..(Len(rest) - 1) : rest[k] = Dash}
  IN IF HasPrefix(toolName, Prefix) /\ dashes # {}
       THEN [ok |-> TRUE,
             serverName |-> SubSeq(rest, 1, (CHOOSE k \in dashes :
                                               \A j \in dashes : k <= j) - 1),
             toolName |-> SubSeq(rest, (CHOOSE k \in dashes :
                                         \A j \in dashes : k <= j) + 1, Len(rest))]
       ELSE NoMatch

\* A greedy first group: the split falls on the last dash.
ParseGreedy(toolName) ==
  LET rest == SubSeq(toolName, Len(Prefix) + 1, Len(toolName))
  IN IF HasPrefix(toolName, Prefix) /\ SplitPoints(rest) # {}
       THEN SplitAt(rest, CHOOSE k \in SplitPoints(rest) :
                            \A j \in SplitPoints(rest) : j <= k)
       ELSE NoMatch

\* toolName.match(/^@mcp-(.+?)-(.+)$/): the lazy first group takes the
\* shortest prefix that lets the rest match.
ParseToolName(toolName) ==
  LET rest == SubSeq(toolName, Len(Prefix) + 1, Len(toolName))
  IN IF HasPrefix(toolName, Prefix) /\ SplitPoints(rest) # {}
       THEN SplitAt(rest, SetMin(SplitPoints(rest)))
       ELSE NoMatch

\* ---------------------------------------------------------------- state
VARIABLES
  \* codec harness
  cPc, cServer, cLocal, cId, cDecoded,
  \* MCPClientManager maps and settings.mcpDisabledTools
  servers, clients, transports, tools, resources, disabledTools,
  \* outcome of the last registry / executor operation
  lastOp,
  \* one user turn of CopilotPlusChainRunner.streamMultimodalResponse
  pc,                 \* "idle", "stream1", "exec", "stream2", "done"
  outcome,            \* "none", "returned", "threw"
  originalMessage,    \* userMessage.originalMessage || userMessage.message
  mentionedMCPTools,  \* canonical ids found by detectMCPTools
  boundTools,         \* tool definitions bound to modelToUse (<<>>: none)
  aborted,            \* abortController.signal.aborted
  nChunks,            \* chunks delivered in the current pass
  fullResponse,       \* the streamer's text buffer
  hasToolCalls,
  toolCallAccumulator,\* Map entries in insertion order
  toolCallsBuffer,
  execIdx,            \* position of executeMCPTools' loop
  inflight,           \* the call-tool request being awaited
  toolResults,        \* executeMCPTools' results array
  messages,           \* messages pushed after the user message
  lastToolResults,    \* the runner's side-channel field
  \* history of the turn
  streamCalls,        \* one record per modelToUse.stream(messages)
  requests,           \* call-tool requests sent, in order
  execRounds,         \* times executeMCPTools was entered
  cancelledInPass1,   \* the abort came while the first stream was open
  textAtAbort,        \* the text buffer when the abort came
  toolEventInPass2,   \* a follow-up chunk carried tool-call data
  \* the end of CopilotPlusChainRunner.run
  savedContext,       \* what memory.saveContext was given as output
  shownMessages,      \* messages handed to addMessage
  \* settings.mcpAlwaysSendTools, written by the tools picker
  mcpAlwaysSendTools,
  \* the chunks the first stream's loop has processed, in arrival order
  arrived,
  \* the number of the runner's current turn
  turnNo,
  \* settings.mcpServers as MCPToolsManager.initialize reads it
  mcpServers,
  \* MCPToolsManager.initialized
  initialized,
  \* the async registry calls that are suspended at an await
  tasks,
  \* per server name: sessions a connect opened and no close has ended
  sessions,
  \* per server name: times connectToServer was entered
  connectCalls

codecVars == <<cPc, cServer, cLocal, cId, cDecoded>>
regVars == <<servers, clients, transports, tools, resources, disabledTools>>
respVars == <<savedContext, shownMessages>>
settingVars == <<mcpAlwaysSendTools>>
passVars == <<arrived>>
schedVars == <<mcpServers, initialized, tasks, sessions, connectCalls>>
auxVars == <<passVars, turnNo, schedVars>>
turnVars == <<pc, outcome, originalMessage, mentionedMCPTools, boundTools, aborted,
              nChunks, fullResponse, hasToolCalls, toolCallAccumulator,
              toolCallsBuffer, execIdx, inflight, toolResults, messages,
              lastToolResults, streamCalls, requests, execRounds,
              cancelledInPass1, textAtAbort, toolEventInPass2, respVars>>
vars == <<codecVars, regVars, lastOp, turnVars, settingVars, auxVars>>

\* ------------------------------------------------ registry and catalog
ServerA == <<"a">>
ServerAB == <<"a", "-", "b">>
ServerNames == {ServerA, ServerAB}

ToolT == <<"t">>
ToolBT == <<"b", "-", "t">>
ToolEmpty == <<>>
\* tool lists a provider may answer list-tools with
ToolLists == {<<>>, <<ToolT>>, <<ToolT, ToolEmpty>>}
ResourceLists == {<<"r">>}

NoConfig == "none"
Urls == {"u1"}
NoEntry == [has |-> FALSE, list |-> <<>>]
Entry(l) == [has |-> TRUE, list |-> l]

NoRequest == [sent |-> FALSE, server |-> <<>>, tool |-> <<>>]
Request(s, t) == [sent |-> TRUE, server |-> s, tool |-> t]
\* what became of the session (client) and of the transport an operation had
\* to close: "none" (there was none), "closed", "failed" (close() threw),
\* "skipped" (open, and close() was never called)
NoCloses == [client |-> "none", transport |-> "none"]
\* log: the steps a composite operation went through, in order
NoOp == [op |-> "none", arg |-> <<>>, result |-> "none", request |-> NoRequest,
         closes |-> NoCloses, log |-> <<>>]
Op(o, a, r, q) == [op |-> o, arg |-> a, result |-> r, request |-> q,
                   closes |-> NoCloses, log |-> <<>>]

RegEmpty ==
  /\ servers = [n \in ServerNames |-> NoConfig]
  /\ clients = {}
  /\ transports = {}
  /\ tools = [n \in ServerNames |-> NoEntry]
  /\ resources = [n \in ServerNames |-> NoEntry]
  /\ disabledTools = {}

\* what a provider answers a list request with
ListOutcomes(lists) ==
  {[kind |-> "list", list |-> l] : l \in lists}
    \cup {[kind |-> k, list |-> <<>>] : k \in {"methodNotFound", "error"}}

ListError == [kind |-> "error", list |-> <<>>]
\* what a provider answers list-resources with
ResourceOutcomes == {[kind |-> "list", list |-> l] : l \in ResourceLists} \cup {ListError}

\* a load that treats method-not-found like any other error
LoadIgnoringNotFound(old, resp) ==
  CASE resp.kind = "list" -> Entry(resp.list)
    [] OTHER -> old

\* a load that empties the entry on any error
LoadClearingOnError(old, resp) ==
  CASE resp.kind = "list" -> Entry(resp.list)
    [] OTHER -> Entry(<<>>)

\* a load that never stores the answer
LoadKeepingOld(old, resp) == old

\* loadServerTools / loadServerResources: the catalog entry after the request
LoadEntry(old, resp) ==
  CASE resp.kind = "list" -> Entry(resp.list)
    [] resp.kind = "methodNotFound" -> Entry(<<>>)
    [] OTHER -> old

\* isServerConnected
IsServerConnected(cl, name) == name \in cl

\* getAllMCPTools: one entry per catalog tool, in Map order (servers in a
\* fixed order here, the order does not matter to any reader)
ServerOrder == <<ServerA, ServerAB>>

RECURSIVE FlattenFrom(_, _)
FlattenFrom(tl, i) ==
  IF i > Len(ServerOrder) THEN <<>>
  ELSE LET sn == ServerOrder[i]
           es == [j \in 1..Len(tl[sn].list) |->
                    [name |-> CanonicalId(sn, tl[sn].list[j]), serverName |-> sn,
                     localName |-> tl[sn].list[j]]]
       IN (IF tl[sn].has THEN es ELSE <<>>) \o FlattenFrom(tl, i + 1)

GetAllMCPTools(tl) == FlattenFrom(tl, 1)

SeqRange(q) == {q[i] : i \in 1..Len(q)}
CatalogIds(tl) == {e.name : e \in SeqRange(GetAllMCPTools(tl))}

\* getEnabledMCPTools: the entries of getAllMCPTools whose id, built again
\* from serverName and the entry's name, is not in the disabled set
GetEnabledMCPTools(tl, dis) ==
  SelectSeq(GetAllMCPTools(tl), LAMBDA e : CanonicalId(e.serverName, e.name) \notin dis)

\* the format check made after the connection check
ExecuteLenientFormat(toolName, dis, cl, providerOk) ==
  LET m == ParseToolName(toolName)
  IN IF toolName \in dis THEN [result |-> "ToolDisabled", request |-> NoRequest]
     ELSE IF ~IsServerConnected(cl, m.serverName)
       THEN [result |-> "ServerNotConnected", request |-> NoRequest]
     ELSE IF ~m.ok THEN [result |-> "InvalidFormat", request |-> NoRequest]
     ELSE [result |-> IF providerOk THEN "ok" ELSE "ProviderError",
           request |-> Request(m.serverName, m.toolName)]

\* the connection check skipped
ExecuteSkippingConnectionCheck(toolName, dis, cl, providerOk) ==
  LET m == ParseToolName(toolName)
  IN IF toolName \in dis THEN [result |-> "ToolDisabled", request |-> NoRequest]
     ELSE IF ~m.ok THEN [result |-> "InvalidFormat", request |-> NoRequest]
     ELSE [result |-> IF providerOk THEN "ok" ELSE "ProviderError",
           request |-> Request(m.serverName, m.toolName)]

\* the disabled check skipped
ExecuteSkippingDisabled(toolName, dis, cl, providerOk) ==
  LET m == ParseToolName(toolName)
  IN IF ~m.ok THEN [result |-> "InvalidFormat", request |-> NoRequest]
     ELSE IF ~IsServerConnected(cl, m.serverName)
       THEN [result |-> "ServerNotConnected", request |-> NoRequest]
     ELSE [result |-> IF providerOk THEN "ok" ELSE "ProviderError",
           request |-> Request(m.serverName, m.toolName)]

\* MCPToolsManager.executeMCPTool followed by MCPClientManager.executeTool
ExecuteMCPToolResult(toolName, dis, cl, providerOk) ==
  LET m == ParseToolName(toolName)
  IN IF toolName \in dis THEN [result |-> "ToolDisabled", request |-> NoRequest]
     ELSE IF ~m.ok THEN [result |-> "InvalidFormat", request |-> NoRequest]
     ELSE IF ~IsServerConnected(cl, m.serverName)
       THEN [result |-> "ServerNotConnected", request |-> NoRequest]
     ELSE [result |-> IF providerOk THEN "ok" ELSE "ProviderError",
           request |-> Request(m.serverName, m.toolName)]

\* an addServer that connects as it stores
AddServerConnecting(name) ==
  /\ servers' = [servers EXCEPT ![name] = "u1"]
  /\ clients' = clients \cup {name}
  /\ lastOp' = Op("addServer", name, "ok", NoRequest)
  /\ UNCHANGED <<transports, tools, resources, disabledTools>>
  /\ UNCHANGED <<codecVars, turnVars, settingVars, auxVars>>

AddServer(name) ==
  /\ servers' = [servers EXCEPT ![name] = "u1"]
  /\ lastOp' = Op("addServer", name, "ok", NoRequest)
  /\ UNCHANGED <<clients, transports, tools, resources, disabledTools>>
  /\ UNCHANGED <<codecVars, turnVars, settingVars, auxVars>>

\* a connect that stores the handles before the handshake
ConnectRegisterFirst(name, handshakeOk, toolsResp, resResp) ==
  /\ UNCHANGED <<codecVars, turnVars, settingVars, auxVars>>
  /\ IF servers[name] = NoConfig
       THEN /\ lastOp' = Op("connect", name, "NotFound", NoRequest)
            /\ UNCHANGED regVars
     ELSE /\ clients' = clients \cup {name}
          /\ transports' = transports \cup {name}
          /\ tools' = IF handshakeOk THEN [tools EXCEPT ![name] = LoadEntry(@, toolsResp)]
                       ELSE tools
          /\ resources' = IF handshakeOk
                             THEN [resources EXCEPT ![name] = LoadEntry(@, resResp)]
                             ELSE resources
          /\ lastOp' = Op("connect", name,
                          IF handshakeOk THEN "ok" ELSE "ConnectionError", NoRequest)
          /\ UNCHANGED <<servers, disabledTools>>

ConnectToServer(name, handshakeOk, toolsResp, resResp) ==
  /\ UNCHANGED <<codecVars, turnVars, settingVars, auxVars>>
  /\ IF servers[name] = NoConfig
       THEN /\ lastOp' = Op("connect", name, "NotFound", NoRequest)
            /\ UNCHANGED regVars
     ELSE IF ~handshakeOk
       THEN /\ lastOp' = Op("connect", name, "ConnectionError", NoRequest)
            /\ UNCHANGED regVars
     ELSE /\ clients' = clients \cup {name}
          /\ transports' = transports \cup {name}
          /\ tools' = [tools EXCEPT ![name] = LoadEntry(@, toolsResp)]
          /\ resources' = [resources EXCEPT ![name] = LoadEntry(@, resResp)]
          /\ lastOp' = Op("connect", name, "ok", NoRequest)
          /\ UNCHANGED <<servers, disabledTools>>

\* a disconnect whose first failing close() ends the call
DisconnectStopAtFirstError(name, closeClientOk, closeTransportOk) ==
  LET stopped == name \in clients /\ ~closeClientOk
  IN /\ clients' = IF name \in clients /\ closeClientOk THEN clients \ {name}
                    ELSE clients
     /\ transports' = IF name \in transports /\ closeTransportOk /\ ~stopped
                         THEN transports \ {name} ELSE transports
     /\ tools' = IF stopped THEN tools ELSE [tools EXCEPT ![name] = NoEntry]
     /\ resources' = IF stopped THEN resources
                      ELSE [resources EXCEPT ![name] = NoEntry]

\* the maps after disconnectFromServer(name)
DisconnectEffect(name, closeClientOk, closeTransportOk) ==
  /\ clients' = IF name \in clients /\ closeClientOk THEN clients \ {name} ELSE clients
  /\ transports' = IF name \in transports /\ closeTransportOk
                     THEN transports \ {name} ELSE transports
  /\ tools' = [tools EXCEPT ![name] = NoEntry]
  /\ resources' = [resources EXCEPT ![name] = NoEntry]

\* the close() calls disconnectFromServer(name) makes and how they end
CloseOutcome(open, ok) == IF ~open THEN "none" ELSE IF ok THEN "closed" ELSE "failed"
Closes(name, closeClientOk, closeTransportOk) ==
  [client |-> CloseOutcome(name \in clients, closeClientOk),
   transport |-> CloseOutcome(name \in transports, closeTransportOk)]

DisconnectFromServer(name, closeClientOk, closeTransportOk) ==
  /\ DisconnectEffect(name, closeClientOk, closeTransportOk)
  /\ lastOp' = [Op("disconnect", name, "ok", NoRequest) EXCEPT
                  !.closes = Closes(name, closeClientOk, closeTransportOk)]
  /\ UNCHANGED <<servers, disabledTools, codecVars, turnVars, settingVars, auxVars>>

RemoveServer(name, closeClientOk, closeTransportOk) ==
  /\ DisconnectEffect(name, closeClientOk, closeTransportOk)
  /\ servers' = [servers EXCEPT ![name] = NoConfig]
  /\ lastOp' = [Op("removeServer", name, "ok", NoRequest) EXCEPT
                  !.closes = Closes(name, closeClientOk, closeTransportOk)]
  /\ UNCHANGED <<disabledTools, codecVars, turnVars, settingVars, auxVars>>

\* the tools picker's handleSave: the ids of the catalog tools switched off
SaveDisabledTools(ids) ==
  /\ disabledTools' = ids
  /\ lastOp' = Op("saveDisabled", <<>>, "ok", NoRequest)
  /\ UNCHANGED <<servers, clients, transports, tools, resources>>
  /\ UNCHANGED <<codecVars, turnVars, settingVars, auxVars>>

\* disconnectAll: disconnectFromServer for every key of servers, then the
\* three clear() calls; closeClientOk and closeTransportOk give, per server,
\* how its close() calls end
DisconnectAll(closeClientOk, closeTransportOk) ==
  LET known == {n \in ServerNames : servers[n] # NoConfig}
  IN /\ clients' = clients \ {n \in known : closeClientOk[n]}
     /\ transports' = transports \ {n \in known : closeTransportOk[n]}
     /\ servers' = [n \in ServerNames |-> NoConfig]
     /\ tools' = [n \in ServerNames |-> NoEntry]
     /\ resources' = [n \in ServerNames |-> NoEntry]
     /\ lastOp' = Op("disconnectAll", <<>>, "ok", NoRequest)
     /\ UNCHANGED <<disabledTools, codecVars, turnVars, settingVars, auxVars>>

\* what the throwaway client's listTools() answers in testConnection
ProbeOutcomes == {"ok", "methodNotFound", "error"}

\* a test that takes method-not-found from the probe as a failure
TestConnectionStrictProbe(handshakeOk, probe, closeClientOk, closeTransportOk) ==
  IF ~handshakeOk THEN [result |-> "false", closes |-> NoCloses]
  ELSE IF probe # "ok"
    THEN [result |-> "false",
          closes |-> [client |-> "skipped", transport |-> "skipped"]]
  ELSE IF ~closeClientOk
    THEN [result |-> "false",
          closes |-> [client |-> "failed", transport |-> "skipped"]]
  ELSE IF ~closeTransportOk
    THEN [result |-> "false",
          closes |-> [client |-> "closed", transport |-> "failed"]]
  ELSE [result |-> "true", closes |-> [client |-> "closed", transport |-> "closed"]]

\* what the remote end did during testConnection: the handshake, then the probe
TestLog(handshakeOk, probe) ==
  IF handshakeOk THEN <<"connected", probe>> ELSE <<"connectFailed">>

\* testConnection: the boolean returned and what became of the throwaway
\* session and transport
TestConnectionResult(handshakeOk, probe, closeClientOk, closeTransportOk) ==
  IF ~handshakeOk THEN [result |-> "false", closes |-> NoCloses]
  ELSE IF probe = "error"
    THEN [result |-> "false",
          closes |-> [client |-> "skipped", transport |-> "skipped"]]
  ELSE IF ~closeClientOk
    THEN [result |-> "false",
          closes |-> [client |-> "failed", transport |-> "skipped"]]
  ELSE IF ~closeTransportOk
    THEN [result |-> "false",
          closes |-> [client |-> "closed", transport |-> "failed"]]
  ELSE [result |-> "true", closes |-> [client |-> "closed", transport |-> "closed"]]

\* a test that registers the session it opens
TestConnectionRegistering(name, handshakeOk, probe, closeClientOk, closeTransportOk) ==
  LET r == TestConnectionResult(handshakeOk, probe, closeClientOk, closeTransportOk)
  IN /\ lastOp' = [Op("testConnection", name, r.result, NoRequest) EXCEPT
                     !.closes = r.closes,
                     !.log = TestLog(handshakeOk, probe)]
     /\ clients' = IF handshakeOk THEN clients \cup {name} ELSE clients
     /\ UNCHANGED <<servers, transports, tools, resources, disabledTools>>
     /\ UNCHANGED <<codecVars, turnVars, settingVars, auxVars>>

TestConnection(name, handshakeOk, probe, closeClientOk, closeTransportOk) ==
  LET r == TestConnectionResult(handshakeOk, probe, closeClientOk, closeTransportOk)
  IN /\ lastOp' = [Op("testConnection", name, r.result, NoRequest) EXCEPT
                     !.closes = r.closes,
                     !.log = TestLog(handshakeOk, probe)]
     /\ UNCHANGED <<regVars, codecVars, turnVars, settingVars, auxVars>>

\* what one connected server answers during refreshAllTools
RefreshOutcomes == [tools : ListOutcomes({<<ToolT>>}),
                    resources : ListOutcomes(ResourceLists)]

\* the refreshes made, in the order of clients.keys()
RECURSIVE RefreshLog(_, _, _)
RefreshLog(cl, f, i) ==
  IF i > Len(ServerOrder) THEN <<>>
  ELSE (IF ServerOrder[i] \in cl
          THEN <<[server |-> ServerOrder[i], tools |-> f[ServerOrder[i]].tools,
                  resources |-> f[ServerOrder[i]].resources]>>
          ELSE <<>>) \o RefreshLog(cl, f, i + 1)

\* a refresh that ends at the first server whose request fails
RefreshStopAtFirstError(f) ==
  LET Failed(n) == n \in clients /\ (f[n].tools.kind = "error"
                                        \/ f[n].resources.kind = "error")
      Reached(n) == n \in clients
                      /\ \A i, j \in 1..Len(ServerOrder) :
                           (ServerOrder[j] = n /\ i < j) => ~Failed(ServerOrder[i])
  IN /\ tools' = [n \in ServerNames |->
                    IF Reached(n) THEN LoadEntry(tools[n], f[n].tools) ELSE tools[n]]
     /\ resources' = [n \in ServerNames |->
                        IF Reached(n) THEN LoadEntry(resources[n], f[n].resources)
                        ELSE resources[n]]
     /\ lastOp' = [Op("refreshAllTools", <<>>,
                      IF \E n \in clients : Failed(n) THEN "error" ELSE "ok",
                      NoRequest) EXCEPT !.log = RefreshLog(clients, f, 1)]
     /\ UNCHANGED <<servers, clients, transports, disabledTools>>
     /\ UNCHANGED <<codecVars, turnVars, settingVars, auxVars>>

\* refreshAllTools: loadServerTools then loadServerResources for every key
\* of clients, each server in its own try/catch; f gives the answers
RefreshAllTools(f) ==
  /\ tools' = [n \in ServerNames |->
                 IF n \in clients THEN LoadEntry(tools[n], f[n].tools) ELSE tools[n]]
  /\ resources' = [n \in ServerNames |->
                     IF n \in clients THEN LoadEntry(resources[n], f[n].resources)
                     ELSE resources[n]]
  /\ lastOp' = [Op("refreshAllTools", <<>>, "ok", NoRequest) EXCEPT
                  !.log = RefreshLog(clients, f, 1)]
  /\ UNCHANGED <<servers, clients, transports, disabledTools>>
  /\ UNCHANGED <<codecVars, turnVars, settingVars, auxVars>>

\* what testConnection can come to
TestOutcomes ==
  {TestConnectionResult(h, p, c, TRUE) : h \in BOOLEAN, p \in ProbeOutcomes, c \in BOOLEAN}

\* a manager addServer that stores the config before testing it
ManagerAddServerStoreFirst(name, test, handshakeOk, toolsResp, resResp) ==
  /\ servers' = [servers EXCEPT ![name] = "u1"]
  /\ UNCHANGED <<disabledTools, codecVars, turnVars, settingVars, auxVars>>
  /\ IF test.result # "true"
       THEN /\ lastOp' = [Op("managerAddServer", name, "ConnectionTestFailed",
                             NoRequest) EXCEPT
                           !.log = <<"addServer", "testConnection">>]
            /\ UNCHANGED <<clients, transports, tools, resources>>
     ELSE IF ~handshakeOk
       THEN /\ lastOp' = [Op("managerAddServer", name, "ConnectionError", NoRequest)
                           EXCEPT !.log = <<"addServer", "testConnection",
                                            "connectToServer">>]
            /\ UNCHANGED <<clients, transports, tools, resources>>
     ELSE /\ clients' = clients \cup {name}
          /\ transports' = transports \cup {name}
          /\ tools' = [tools EXCEPT ![name] = LoadEntry(@, toolsResp)]
          /\ resources' = [resources EXCEPT ![name] = LoadEntry(@, resResp)]
          /\ lastOp' = [Op("managerAddServer", name, "ok", NoRequest) EXCEPT
                          !.log = <<"addServer", "testConnection", "connectToServer">>]

\* MCPToolsManager.addServer: testConnection, then MCPClientManager.addServer,
\* then connectToServer; test is what testConnection came to
ManagerAddServer(name, test, handshakeOk, toolsResp, resResp) ==
  /\ UNCHANGED <<disabledTools, codecVars, turnVars, settingVars, auxVars>>
  /\ IF test.result # "true"
       THEN /\ lastOp' = [Op("managerAddServer", name, "ConnectionTestFailed",
                             NoRequest) EXCEPT !.log = <<"testConnection">>]
            /\ UNCHANGED <<servers, clients, transports, tools, resources>>
     ELSE IF ~handshakeOk
       THEN /\ servers' = [servers EXCEPT ![name] = "u1"]
            /\ lastOp' = [Op("managerAddServer", name, "ConnectionError", NoRequest)
                           EXCEPT !.log = <<"testConnection", "addServer",
                                            "connectToServer">>]
            /\ UNCHANGED <<clients, transports, tools, resources>>
     ELSE /\ servers' = [servers EXCEPT ![name] = "u1"]
          /\ clients' = clients \cup {name}
          /\ transports' = transports \cup {name}
          /\ tools' = [tools EXCEPT ![name] = LoadEntry(@, toolsResp)]
          /\ resources' = [resources EXCEPT ![name] = LoadEntry(@, resResp)]
          /\ lastOp' = [Op("managerAddServer", name, "ok", NoRequest) EXCEPT
                          !.log = <<"testConnection", "addServer", "connectToServer">>]

ExecuteMCPTool(toolName, providerOk) ==
  LET r == ExecuteMCPToolResult(toolName, disabledTools, clients, providerOk)
  IN /\ lastOp' = Op("execute", toolName, r.result, r.request)
     /\ UNCHANGED <<regVars, codecVars, turnVars, settingVars, auxVars>>

\* ids handed to executeMCPTool: every id the catalog can hold, every
\* disabled id, and strings that are no canonical id
Malformed == {<<"a", "-", "t">>}
ExecInputs ==
  {CanonicalId(s, t) : s \in ServerNames, t \in {ToolT, ToolEmpty}} \cup Malformed

\* memory.saveContext not called
NotSaved == [saved |-> FALSE, toolResultsText |-> <<>>, response |-> <<>>]

CodecIdle ==
  /\ cPc = "start" /\ cServer = <<>> /\ cLocal = <<>> /\ cId = <<>>
  /\ cDecoded = NoMatch

\* no settings read, nothing suspended, no session opened
SchedIdle ==
  /\ mcpServers = <<>>
  /\ initialized = FALSE
  /\ tasks = {}
  /\ sessions = [n \in ServerNames |-> IF n \in clients THEN 1 ELSE 0]
  /\ connectCalls = [n \in ServerNames |-> 0]

TurnIdle ==
  /\ pc = "idle" /\ outcome = "none" /\ originalMessage = <<>>
  /\ mentionedMCPTools = <<>> /\ boundTools = <<>> /\ aborted = FALSE
  /\ nChunks = 0 /\ fullResponse = <<>> /\ hasToolCalls = FALSE
  /\ toolCallAccumulator = <<>> /\ toolCallsBuffer = <<>> /\ execIdx = 0
  /\ inflight = NoRequest /\ toolResults = <<>> /\ messages = <<>>
  /\ lastToolResults = <<>> /\ streamCalls = <<>> /\ requests = <<>>
  /\ execRounds = 0 /\ cancelledInPass1 = FALSE /\ textAtAbort = <<>>
  /\ toolEventInPass2 = FALSE
  /\ savedContext = NotSaved /\ shownMessages = <<>>
  /\ mcpAlwaysSendTools = FALSE
  /\ arrived = <<>>
  /\ turnNo = 1

RegInit ==
  /\ RegEmpty
  /\ lastOp = NoOp
  /\ CodecIdle
  /\ TurnIdle
  /\ SchedIdle

RegNext ==
  \/ \E n \in ServerNames : AddServer(n)
  \/ \E n \in ServerNames, tr \in ListOutcomes(ToolLists), rr \in ResourceOutcomes :
        ConnectToServer(n, TRUE, tr, rr)
  \/ \E n \in ServerNames : ConnectToServer(n, FALSE, ListError, ListError)
  \/ \E n \in ServerNames, c \in BOOLEAN, t \in BOOLEAN :
        DisconnectFromServer(n, c, t)
  \/ \E n \in ServerNames, c \in BOOLEAN, t \in BOOLEAN : RemoveServer(n, c, t)
  \/ \E ids \in SUBSET CatalogIds(tools) : SaveDisabledTools(ids)
  \/ \E c \in [ServerNames -> BOOLEAN], t \in [ServerNames -> BOOLEAN] :
        DisconnectAll(c, t)
  \/ \E p \in ProbeOutcomes, c \in BOOLEAN, t \in BOOLEAN :
        TestConnection(ServerA, TRUE, p, c, t)
  \/ TestConnection(ServerA, FALSE, "error", FALSE, FALSE)
  \/ \E id \in ExecInputs, ok \in BOOLEAN : ExecuteMCPTool(id, ok)

SpecRegistry == RegInit /\ [][RegNext]_vars

\* the catalog under connect, refresh and the manager's addServer
CatalogNext ==
  \/ \E n \in ServerNames : AddServer(n)
  \/ \E n \in ServerNames, tr \in ListOutcomes(ToolLists),
        rr \in ListOutcomes(ResourceLists) : ConnectToServer(n, TRUE, tr, rr)
  \/ \E n \in ServerNames : ConnectToServer(n, FALSE, ListError, ListError)
  \/ \E n \in ServerNames, c \in BOOLEAN, t \in BOOLEAN :
        DisconnectFromServer(n, c, t)
  \/ \E f \in [clients -> RefreshOutcomes] : RefreshAllTools(f)
  \/ \E n \in ServerNames, test \in TestOutcomes, h2 \in BOOLEAN,
        tr \in ListOutcomes({<<ToolT>>}) : ManagerAddServer(n, test, h2, tr, ListError)

SpecCatalog == RegInit /\ [][CatalogNext]_vars

\* --------------------------------------------------------- one user turn
Indices == {0, 1}
NoId == ""
CallId(i) == IF i = 0 THEN "i0" ELSE "i1"
\* `tool_call_${Date.now()}_${index}` and the random id of a whole call
GenId(i) == IF i = 0 THEN "gen0" ELSE "gen1"
RandomId == "genr"
\* the tool name the model puts in the calls of stream index i
CallName(i) == IF i = 0 THEN ToolT ELSE ToolBT
UnknownTool == <<"unknown_tool">>

\* x || y on strings
OrElse(x, y) == IF x # NoId THEN x ELSE y

\* detectMCPTools: the catalog ids the message includes, ignoring case
\* (every catalog id is mentioned: what an always-send policy would do)
DetectAll(message, tl) ==
  [i \in 1..Len(GetAllMCPTools(tl)) |-> GetAllMCPTools(tl)[i].name]

DetectMCPTools(message, tl) ==
  LET Mentioned(e) == Includes(ToLowerCase(message), ToLowerCase(e.name))
      hit == SelectSeq(GetAllMCPTools(tl), Mentioned)
  IN [i \in 1..Len(hit) |-> hit[i].name]

\* getServerTools: the raw list, [] when the server has no entry
GetServerTools(tl, name) == IF name \in DOMAIN tl THEN tl[name].list ELSE <<>>

\* getMCPToolDefinitions: one LangChain tool per mentioned id whose parsed
\* (server, tool) is in the catalog
RECURSIVE ToolDefsFrom(_, _, _)
ToolDefsFrom(toolNames, tl, i) ==
  IF i > Len(toolNames) THEN <<>>
  ELSE LET m == ParseToolName(toolNames[i])
           found == m.ok /\ m.toolName # <<>>
                      /\ m.toolName \in SeqRange(GetServerTools(tl, m.serverName))
           def == [name |-> m.toolName, mcpToolName |-> toolNames[i],
                   mcpServerName |-> m.serverName]
       IN (IF found THEN <<def>> ELSE <<>>) \o ToolDefsFrom(toolNames, tl, i + 1)

GetMCPToolDefinitions(toolNames, tl) == ToolDefsFrom(toolNames, tl, 1)

\* lines 697-720: the tools bound to modelToUse; bindOutcome is what
\* chatModel.bindTools does ("ok", "unsupported", "throws")
BindTools(mentioned, tl, bindOutcome) ==
  IF Len(mentioned) > 0 /\ Len(GetMCPToolDefinitions(mentioned, tl)) > 0
       /\ bindOutcome = "ok"
    THEN GetMCPToolDefinitions(mentioned, tl)
    ELSE <<>>

\* the values JSON.parse gives for the texts of the alphabet { } 1 2: the
\* empty object for "{}", the number for a run of digits
EmptyObject == [type |-> "object", num |-> 0]
Digits == {"1", "2"}
DigitValue(d) == IF d = "1" THEN 1 ELSE 2

RECURSIVE NumberValue(_)
NumberValue(text) ==
  IF text = <<>> THEN 0
  ELSE 10 * NumberValue(SubSeq(text, 1, Len(text) - 1)) + DigitValue(text[Len(text)])

\* JSON.parse on the argument text; every other text is a SyntaxError
JSONParse(text) ==
  IF text = <<"{", "}">> THEN [ok |-> TRUE, value |-> EmptyObject]
  ELSE IF text # <<>> /\ \A i \in 1..Len(text) : text[i] \in Digits
    THEN [ok |-> TRUE, value |-> [type |-> "number", num |-> NumberValue(text)]]
  ELSE [ok |-> FALSE, value |-> EmptyObject]

\* an accumulator that puts each new substring in front of the text so far
ProcessFragmentPrepending(acc, f) ==
  LET acc1 == IF \E i \in 1..Len(acc) : acc[i].index = f.index
                THEN acc
                ELSE Append(acc, [index |-> f.index, name |-> <<>>, args |-> <<>>,
                                  id |-> f.id])
      k == CHOOSE i \in 1..Len(acc1) : acc1[i].index = f.index
      e == acc1[k]
  IN [acc1 EXCEPT ![k] =
        [index |-> e.index,
         name |-> IF f.name # <<>> THEN f.name ELSE e.name,
         args |-> IF f.args # <<>> THEN f.args \o e.args ELSE e.args,
         id |-> IF f.id # NoId THEN f.id ELSE e.id]]

\* lines 742-765: one tool_call_chunk into the accumulator Map
ProcessFragment(acc, f) ==
  LET acc1 == IF \E i \in 1..Len(acc) : acc[i].index = f.index
                THEN acc
                ELSE Append(acc, [index |-> f.index, name |-> <<>>, args |-> <<>>,
                                  id |-> f.id])
      k == CHOOSE i \in 1..Len(acc1) : acc1[i].index = f.index
      e == acc1[k]
  IN [acc1 EXCEPT ![k] =
        [index |-> e.index,
         name |-> IF f.name # <<>> THEN f.name ELSE e.name,
         args |-> IF f.args # <<>> THEN e.args \o f.args ELSE e.args,
         id |-> IF f.id # NoId THEN f.id ELSE e.id]]

RECURSIVE ProcessFragments(_, _)
ProcessFragments(acc, fs) ==
  IF fs = <<>> THEN acc ELSE ProcessFragments(ProcessFragment(acc, Head(fs)), Tail(fs))

\* a reconstruction that gives up at the first index it cannot resolve
RECURSIVE ParseAccumulatedStopAtBad(_)
ParseAccumulatedStopAtBad(acc) ==
  IF acc = <<>> THEN <<>>
  ELSE LET e == Head(acc)
           call == [id |-> OrElse(e.id, GenId(e.index)), name |-> e.name,
                    args |-> JSONParse(e.args).value, idx |-> e.index]
       IN IF e.name # <<>> /\ e.args # <<>> /\ JSONParse(e.args).ok
            THEN <<call>> \o ParseAccumulatedStopAtBad(Tail(acc))
            ELSE <<>>

\* lines 802-821: the calls rebuilt from the accumulator, in Map order
RECURSIVE ParseAccumulated(_)
ParseAccumulated(acc) ==
  IF acc = <<>> THEN <<>>
  ELSE LET e == Head(acc)
           call == [id |-> OrElse(e.id, GenId(e.index)), name |-> e.name,
                    args |-> JSONParse(e.args).value, idx |-> e.index]
       IN (IF e.name # <<>> /\ e.args # <<>> /\ JSONParse(e.args).ok
             THEN <<call>> ELSE <<>>) \o ParseAccumulated(Tail(acc))

\* lines 772-790: whole calls pushed to the buffer
CompleteCalls(chunk) ==
  LET Named(tc) == tc.name # <<>>
      valid == SelectSeq(chunk.tool_calls, Named)
  IN IF ~chunk.tccDefined
       THEN [i \in 1..Len(valid) |->
               [id |-> OrElse(valid[i].id, RandomId), name |-> valid[i].name,
                args |-> EmptyObject, idx |-> -1]]
       ELSE <<>>

\* line 827 with a test that forgets the buffer
ContinueOnFlag(flag, buffer) == flag

\* line 827: hasToolCalls && toolCallsBuffer.length > 0
ShouldContinue(flag, buffer) == flag /\ Len(buffer) > 0

ErrorOutput(text) == [error |-> TRUE, text |-> text]
OkOutput == [error |-> FALSE, text |-> "result"]
Result(id, name, output) == [tool_call_id |-> id, tool_name |-> name, output |-> output]

\* executeMCPTools with a loop that ends at the first call that fails
\* before reaching its provider
RECURSIVE RunCallsStopOnError(_, _, _, _)
RunCallsStopOnError(calls, mentioned, k, results) ==
  IF k > Len(calls)
    THEN [done |-> TRUE, idx |-> k, results |-> results, request |-> NoRequest]
  ELSE LET call == calls[k]
           cands == {i \in 1..Len(mentioned) : Includes(mentioned[i], call.name)}
           r == ExecuteMCPToolResult(mentioned[SetMin(cands)], disabledTools,
                                     clients, TRUE)
       IN IF cands # {} /\ r.request.sent
            THEN [done |-> FALSE, idx |-> k, results |-> results,
                  request |-> r.request]
            ELSE [done |-> TRUE, idx |-> k,
                  results |-> Append(results, Result(call.id, call.name,
                                                     ErrorOutput("failed"))),
                  request |-> NoRequest]

\* executeMCPTools from call k on, up to the first call-tool request that
\* has to be awaited (done = FALSE) or to the end of the loop (done = TRUE)
RECURSIVE RunCalls(_, _, _, _)
RunCalls(calls, mentioned, k, results) ==
  IF k > Len(calls)
    THEN [done |-> TRUE, idx |-> k, results |-> results, request |-> NoRequest]
  ELSE LET call == calls[k]
           toolCallId == OrElse(call.id, RandomId)
           toolName == IF call.name # <<>> THEN call.name ELSE UnknownTool
           cands == {i \in 1..Len(mentioned) : Includes(mentioned[i], toolName)}
       IN IF cands = {}
            THEN RunCalls(calls, mentioned, k + 1,
                          Append(results, Result(toolCallId, toolName,
                                                 ErrorOutput("Tool not found"))))
          ELSE LET r == ExecuteMCPToolResult(mentioned[SetMin(cands)],
                                             disabledTools, clients, TRUE)
               IN IF r.request.sent
                    THEN [done |-> FALSE, idx |-> k, results |-> results,
                          request |-> r.request]
                    ELSE RunCalls(calls, mentioned, k + 1,
                                  Append(results,
                                         Result(OrElse(call.id, "unknown"),
                                                IF call.name # <<>> THEN call.name
                                                  ELSE <<"unknown">>,
                                                ErrorOutput(r.result))))

AssistantMessage(content, calls) ==
  [role |-> "assistant", content |-> content, tool_calls |-> calls,
   tool_call_id |-> NoId, name |-> <<>>, payload |-> OkOutput]

ToolMessage(result) ==
  [role |-> "tool", content |-> <<>>, tool_calls |-> <<>>,
   tool_call_id |-> result.tool_call_id, name |-> result.tool_name,
   payload |-> result.output]

ToolResultMessages(results) == [i \in 1..Len(results) |-> ToolMessage(results[i])]

\* line 866: modelToUse.stream(messages), modelToUse as bound at line 705
FollowUpModel(bound) == bound

\* lines 832-866 from the state of executeMCPTools' loop `run`; reqs is
\* the request history so far
AdvanceExec(run, calls, reqs) ==
  /\ execIdx' = run.idx
  /\ toolResults' = run.results
  /\ inflight' = run.request
  /\ IF run.done
       THEN LET resultMsgs == ToolResultMessages(run.results)
                msgs == messages \o <<AssistantMessage(fullResponse, calls)>>
                          \o resultMsgs
            IN /\ messages' = msgs
               /\ lastToolResults' = resultMsgs
               /\ streamCalls' = Append(streamCalls,
                                        [tools |-> FollowUpModel(boundTools),
                                         messages |-> msgs])
               /\ pc' = "stream2"
               /\ nChunks' = 0
               /\ requests' = reqs
       ELSE /\ requests' = Append(reqs,
                                  [server |-> run.request.server,
                                   tool |-> run.request.tool, call |-> run.idx,
                                   pass |-> Len(streamCalls), answer |-> "pending",
                                   overlap |-> \E i \in 1..Len(reqs) :
                                                 reqs[i].answer = "pending"])
            /\ pc' = "exec"
            /\ UNCHANGED <<messages, lastToolResults, streamCalls, nChunks>>

\* the events the generation transport may deliver
NoFragments(content, defined, calls) ==
  [content |-> content, tccDefined |-> defined, tcc |-> <<>>, tool_calls |-> calls]
Fragment(i, name, args, id) == [index |-> i, name |-> name, args |-> args, id |-> id]
FragmentChunk(f) ==
  [content |-> <<>>, tccDefined |-> TRUE, tcc |-> <<f>>, tool_calls |-> <<>>]
WholeCall(i, name) == [id |-> CallId(i), name |-> name, args |-> EmptyObject]

Fragments ==
  {Fragment(i, CallName(i), <<"{">>, CallId(i)) : i \in Indices}
    \cup {Fragment(i, <<>>, <<"}">>, NoId) : i \in Indices}
    \cup {Fragment(i, CallName(i), <<"{", "}">>, NoId) : i \in Indices}

Chunks ==
  {NoFragments(<<"x">>, d, <<>>) : d \in BOOLEAN}
    \cup {FragmentChunk(f) : f \in Fragments}
    \cup {NoFragments(<<>>, d, <<WholeCall(0, n)>>) : d \in BOOLEAN, n \in {ToolT, <<>>}}

\* the registry states a turn starts from
TurnRegistries ==
  {[tools |-> [n \in ServerNames |-> IF n = ServerA THEN Entry(<<ToolT>>) ELSE NoEntry],
    clients |-> {ServerA}, disabled |-> {}],
   [tools |-> [n \in ServerNames |-> IF n = ServerA THEN Entry(<<ToolT, ToolBT>>)
                                      ELSE Entry(<<ToolT>>)],
    clients |-> ServerNames, disabled |-> {}],
   [tools |-> [n \in ServerNames |-> IF n = ServerA THEN Entry(<<ToolT, ToolBT>>)
                                      ELSE NoEntry],
    clients |-> {ServerA}, disabled |-> {CanonicalId(ServerA, ToolBT)}]}

IdAT == CanonicalId(ServerA, ToolT)
IdABT == CanonicalId(ServerA, ToolBT)
Messages ==
  {<<"h", "i">>,
   IdAT,
   <<"@", "M", "C", "P", "-", "A", "-", "T">>,
   IdAT \o <<" ">> \o IdABT}

\* a runner about to take a turn on message m with the registry r
TurnStart(r, m) ==
  /\ tools = r.tools
  /\ clients = r.clients
  /\ transports = r.clients
  /\ servers = [n \in ServerNames |-> IF n \in r.clients THEN "u1" ELSE NoConfig]
  /\ resources = [n \in ServerNames |-> IF n \in r.clients THEN Entry(<<>>)
                                         ELSE NoEntry]
  /\ disabledTools = r.disabled
  /\ lastOp = NoOp
  /\ CodecIdle
  /\ pc = "idle" /\ outcome = "none" /\ originalMessage = m
  /\ mentionedMCPTools = <<>> /\ boundTools = <<>> /\ aborted = FALSE
  /\ nChunks = 0 /\ fullResponse = <<>> /\ hasToolCalls = FALSE
  /\ toolCallAccumulator = <<>> /\ toolCallsBuffer = <<>> /\ execIdx = 0
  /\ inflight = NoRequest /\ toolResults = <<>> /\ messages = <<>>
  /\ lastToolResults = <<>> /\ streamCalls = <<>> /\ requests = <<>>
  /\ execRounds = 0 /\ cancelledInPass1 = FALSE /\ textAtAbort = <<>>
  /\ toolEventInPass2 = FALSE
  /\ savedContext = NotSaved /\ shownMessages = <<>>
  /\ mcpAlwaysSendTools = FALSE
  /\ arrived = <<>>
  /\ turnNo = 1
  /\ SchedIdle

TurnInit == \E r \in TurnRegistries, m \in Messages : TurnStart(r, m)

outside == <<codecVars, regVars, lastOp, respVars, settingVars, turnNo, schedVars>>
others == <<outside, passVars>>
HasToolData(chunk) == Len(chunk.tcc) > 0 \/ Len(chunk.tool_calls) > 0

\* lines 636-733: detect the mentions, bind the tools, open the first stream
StartTurn(bindOutcome) ==
  /\ pc = "idle"
  /\ mentionedMCPTools' = DetectMCPTools(originalMessage, tools)
  /\ boundTools' = BindTools(mentionedMCPTools', tools, bindOutcome)
  /\ streamCalls' = <<[tools |-> boundTools', messages |-> messages]>>
  /\ pc' = "stream1"
  /\ UNCHANGED <<outcome, originalMessage, aborted, nChunks, fullResponse,
                 hasToolCalls, toolCallAccumulator, toolCallsBuffer, execIdx,
                 inflight, toolResults, messages, lastToolResults, requests,
                 execRounds, cancelledInPass1, textAtAbort, toolEventInPass2, others>>

\* the user stops the generation
Abort ==
  /\ pc \in {"stream1", "exec", "stream2"}
  /\ ~aborted
  /\ aborted' = TRUE
  /\ cancelledInPass1' = (pc = "stream1")
  /\ textAtAbort' = fullResponse
  /\ UNCHANGED <<pc, outcome, originalMessage, mentionedMCPTools, boundTools,
                 nChunks, fullResponse, hasToolCalls, toolCallAccumulator,
                 toolCallsBuffer, execIdx, inflight, toolResults, messages,
                 lastToolResults, streamCalls, requests, execRounds,
                 toolEventInPass2, others>>

\* lines 796-874 up to the next await: what follows the first stream's loop
AfterStream1 ==
  LET calls == IF hasToolCalls /\ Len(toolCallAccumulator) > 0
                 THEN ParseAccumulated(toolCallAccumulator)
                 ELSE toolCallsBuffer
  IN /\ toolCallsBuffer' = calls
     /\ IF ShouldContinue(hasToolCalls, calls)
          THEN /\ execRounds' = execRounds + 1
               /\ AdvanceExec(RunCalls(calls, mentionedMCPTools, 1, <<>>), calls,
                              requests)
               /\ UNCHANGED outcome
          ELSE /\ pc' = "done"
               /\ outcome' = "returned"
               /\ UNCHANGED <<execRounds, execIdx, inflight, toolResults, messages,
                              lastToolResults, streamCalls, requests, nChunks>>
     /\ UNCHANGED <<originalMessage, mentionedMCPTools, boundTools, aborted,
                    fullResponse, hasToolCalls, toolCallAccumulator,
                    cancelledInPass1, textAtAbort, toolEventInPass2, others>>

\* lines 735-794: one iteration of the first stream's loop (what becomes
\* of `arrived` is said where the action is used)
Stream1Chunk(chunk) ==
  /\ pc = "stream1"
  /\ nChunks < MaxChunks
  /\ IF aborted
       THEN AfterStream1
       ELSE /\ nChunks' = nChunks + 1
            /\ toolCallAccumulator' =
                 IF chunk.tccDefined /\ Len(chunk.tcc) > 0
                   THEN ProcessFragments(toolCallAccumulator, chunk.tcc)
                   ELSE toolCallAccumulator
            /\ toolCallsBuffer' = toolCallsBuffer \o CompleteCalls(chunk)
            /\ hasToolCalls' = (hasToolCalls
                                  \/ (chunk.tccDefined /\ Len(chunk.tcc) > 0)
                                  \/ Len(CompleteCalls(chunk)) > 0)
            /\ fullResponse' = fullResponse \o chunk.content
            /\ UNCHANGED <<pc, outcome, originalMessage, mentionedMCPTools,
                           boundTools, aborted, execIdx, inflight, toolResults,
                           messages, lastToolResults, streamCalls, requests,
                           execRounds, cancelledInPass1, textAtAbort, toolEventInPass2,
                           outside>>

\* the first stream ends
Stream1End ==
  /\ pc = "stream1"
  /\ AfterStream1

\* the provider answers the awaited call-tool request (lines 601-623)
ToolResponse(ok) ==
  /\ pc = "exec"
  /\ LET call == toolCallsBuffer[execIdx]
         result == IF ok
                     THEN Result(OrElse(call.id, RandomId), call.name, OkOutput)
                     ELSE Result(OrElse(call.id, "unknown"), call.name,
                                 ErrorOutput("ProviderError"))
         answered == [requests EXCEPT ![Len(requests)].answer =
                                        IF ok THEN "ok" ELSE "error"]
     IN AdvanceExec(RunCalls(toolCallsBuffer, mentionedMCPTools, execIdx + 1,
                             Append(toolResults, result)), toolCallsBuffer,
                    answered)
  /\ UNCHANGED <<outcome, originalMessage, mentionedMCPTools, boundTools, aborted,
                 fullResponse, hasToolCalls, toolCallAccumulator, toolCallsBuffer,
                 execRounds, cancelledInPass1, textAtAbort, toolEventInPass2, others>>

\* lines 868-873: one iteration of the follow-up stream's loop
Stream2Chunk(chunk) ==
  /\ pc = "stream2"
  /\ nChunks < MaxChunks
  /\ IF aborted
       THEN /\ pc' = "done"
            /\ outcome' = "returned"
            /\ UNCHANGED <<nChunks, fullResponse, toolEventInPass2>>
       ELSE /\ nChunks' = nChunks + 1
            /\ fullResponse' = fullResponse \o chunk.content
            /\ toolEventInPass2' = (toolEventInPass2 \/ HasToolData(chunk))
            /\ UNCHANGED <<pc, outcome>>
  /\ UNCHANGED <<originalMessage, mentionedMCPTools, boundTools, aborted,
                 hasToolCalls, toolCallAccumulator, toolCallsBuffer, execIdx,
                 inflight, toolResults, messages, lastToolResults, streamCalls,
                 requests, execRounds, cancelledInPass1, textAtAbort, others>>

\* the follow-up stream ends
Stream2End ==
  /\ pc = "stream2"
  /\ pc' = "done"
  /\ outcome' = "returned"
  /\ UNCHANGED <<originalMessage, mentionedMCPTools, boundTools, aborted, nChunks,
                 fullResponse, hasToolCalls, toolCallAccumulator, toolCallsBuffer,
                 execIdx, inflight, toolResults, messages, lastToolResults,
                 streamCalls, requests, execRounds, cancelledInPass1, textAtAbort,
                 toolEventInPass2, others>>

\* modelToUse.stream or its iterator raises an error
StreamThrow ==
  /\ pc \in {"stream1", "stream2"}
  /\ pc' = "done"
  /\ outcome' = "threw"
  /\ UNCHANGED <<originalMessage, mentionedMCPTools, boundTools, aborted, nChunks,
                 fullResponse, hasToolCalls, toolCallAccumulator, toolCallsBuffer,
                 execIdx, inflight, toolResults, messages, lastToolResults,
                 streamCalls, requests, execRounds, cancelledInPass1, textAtAbort,
                 toolEventInPass2, others>>

\* `[Tool ${result.name} Result: ${result.content}]`, one per tool message
ToolResultsText(results) ==
  [i \in 1..Len(results) |-> [name |-> results[i].name, content |-> results[i].payload]]

ErrorMessage == <<"e", "r", "r">>

\* an end of run that shows nothing when the stream threw
HandleResponseSilent(newChat) ==
  LET fullAIResponse == IF outcome = "returned" THEN fullResponse ELSE <<>>
  IN /\ pc = "done"
     /\ newChat => aborted
     /\ pc' = "handled"
     /\ IF fullAIResponse # <<>> /\ ~newChat
          THEN /\ savedContext' = [saved |-> TRUE,
                                   toolResultsText |-> ToolResultsText(lastToolResults),
                                   response |-> fullAIResponse]
               /\ lastToolResults' = <<>>
               /\ shownMessages' = shownMessages
                                     \o <<[message |-> fullAIResponse,
                                           isErrorMessage |-> FALSE]>>
          ELSE UNCHANGED <<savedContext, lastToolResults, shownMessages>>
     /\ UNCHANGED <<outcome, originalMessage, mentionedMCPTools, boundTools, aborted,
                    nChunks, fullResponse, hasToolCalls, toolCallAccumulator,
                    toolCallsBuffer, execIdx, inflight, toolResults, messages,
                    streamCalls, requests, execRounds, cancelledInPass1, textAtAbort,
                    toolEventInPass2, codecVars, regVars, lastOp, settingVars, auxVars>>

\* the end of run: handleError when the stream threw, then handleResponse
\* with fullAIResponse ("" when streamMultimodalResponse threw); newChat is
\* abortController.signal.reason === ABORT_REASON.NEW_CHAT
HandleResponse(newChat) ==
  LET fullAIResponse == IF outcome = "returned" THEN fullResponse ELSE <<>>
      errors == IF outcome = "threw"
                  THEN <<[message |-> ErrorMessage, isErrorMessage |-> TRUE]>>
                  ELSE <<>>
  IN /\ pc = "done"
     /\ newChat => aborted
     /\ pc' = "handled"
     /\ IF fullAIResponse # <<>> /\ ~newChat
          THEN /\ savedContext' = [saved |-> TRUE,
                                   toolResultsText |-> ToolResultsText(lastToolResults),
                                   response |-> fullAIResponse]
               /\ lastToolResults' = <<>>
               /\ shownMessages' = shownMessages \o errors
                                     \o <<[message |-> fullAIResponse,
                                           isErrorMessage |-> FALSE]>>
          ELSE /\ shownMessages' = shownMessages \o errors
               /\ UNCHANGED <<savedContext, lastToolResults>>
     /\ UNCHANGED <<outcome, originalMessage, mentionedMCPTools, boundTools, aborted,
                    nChunks, fullResponse, hasToolCalls, toolCallAccumulator,
                    toolCallsBuffer, execIdx, inflight, toolResults, messages,
                    streamCalls, requests, execRounds, cancelledInPass1, textAtAbort,
                    toolEventInPass2, codecVars, regVars, lastOp,
                    settingVars, auxVars>>

Next ==
  \/ \E b \in {"ok", "unsupported", "throws"} : StartTurn(b)
  \/ Abort
  \/ \E c \in Chunks : Stream1Chunk(c) /\ UNCHANGED passVars
  \/ Stream1End
  \/ \E ok \in BOOLEAN : ToolResponse(ok)
  \/ \E c \in Chunks : Stream2Chunk(c)
  \/ Stream2End
  \/ StreamThrow
  \/ \E n \in BOOLEAN : HandleResponse(n)

Spec == TurnInit /\ [][Next]_vars

\* ------------------------------------------- one pass, chunk by chunk
\* the fragments of a pass: names, argument substrings of the documents
\* {} and 12, and a fragment that carries a name alone
PassFragments ==
  UNION {{Fragment(i, CallName(i), <<"{">>, CallId(i)),
          Fragment(i, <<>>, <<"}">>, NoId),
          Fragment(i, CallName(i), <<"1">>, NoId),
          Fragment(i, <<>>, <<"2">>, NoId),
          Fragment(i, CallName(i), <<>>, NoId)} : i \in Indices}

PassChunks ==
  {FragmentChunk(f) : f \in PassFragments}
    \cup {[content |-> <<>>, tccDefined |-> TRUE,
           tcc |-> <<Fragment(0, CallName(0), <<"1">>, NoId),
                     Fragment(1, CallName(1), <<"{">>, NoId)>>,
           tool_calls |-> <<>>]}
    \cup {NoFragments(<<"x">>, FALSE, <<>>)}
    \cup {NoFragments(<<>>, d, <<WholeCall(0, ToolT)>>) : d \in BOOLEAN}
    \cup {NoFragments(<<>>, FALSE, <<WholeCall(0, <<>>)>>)}

\* server a with tools t and b-t, both mentioned
PassRegistry ==
  [tools |-> [n \in ServerNames |-> IF n = ServerA THEN Entry(<<ToolT, ToolBT>>)
                                     ELSE NoEntry],
   clients |-> {ServerA}, disabled |-> {}]

PassInit == TurnStart(PassRegistry, IdAT \o <<" ">> \o IdABT)

\* a turn whose first stream is recorded chunk by chunk
PassNext ==
  \/ StartTurn("ok")
  \/ \E c \in PassChunks :
        Stream1Chunk(c) /\ arrived' = IF aborted THEN arrived ELSE Append(arrived, c)
  \/ Stream1End
  \/ \E ok \in BOOLEAN : ToolResponse(ok)
  \/ Stream2End

SpecPass == PassInit /\ [][PassNext]_vars

\* ------------------------------------------- several turns on one runner
\* run is called again on the same runner: its locals start afresh (892,
\* 725-729), the lastToolResults field is whatever the last turn left
NewTurn(m) ==
  /\ pc = "handled"
  /\ turnNo < MaxTurns
  /\ turnNo' = turnNo + 1
  /\ pc' = "idle" /\ outcome' = "none" /\ originalMessage' = m
  /\ mentionedMCPTools' = <<>> /\ boundTools' = <<>> /\ aborted' = FALSE
  /\ nChunks' = 0 /\ fullResponse' = <<>> /\ hasToolCalls' = FALSE
  /\ toolCallAccumulator' = <<>> /\ toolCallsBuffer' = <<>> /\ execIdx' = 0
  /\ inflight' = NoRequest /\ toolResults' = <<>> /\ messages' = <<>>
  /\ streamCalls' = <<>> /\ requests' = <<>>
  /\ execRounds' = 0 /\ cancelledInPass1' = FALSE /\ textAtAbort' = <<>>
  /\ toolEventInPass2' = FALSE
  /\ savedContext' = NotSaved /\ shownMessages' = <<>>
  /\ UNCHANGED <<lastToolResults, codecVars, regVars, lastOp, settingVars, passVars,
               schedVars>>

\* the chunks of these turns: text, and the whole of one call to tool t
TurnsChunks ==
  {NoFragments(<<"x">>, FALSE, <<>>),
   FragmentChunk(Fragment(0, CallName(0), <<"{", "}">>, NoId))}

TurnsInit == TurnStart(PassRegistry, IdAT)

TurnsNext ==
  \/ StartTurn("ok")
  \/ Abort
  \/ \E c \in TurnsChunks : Stream1Chunk(c) /\ UNCHANGED passVars
  \/ Stream1End
  \/ \E ok \in BOOLEAN : ToolResponse(ok)
  \/ Stream2Chunk(NoFragments(<<"x">>, FALSE, <<>>))
  \/ Stream2End
  \/ StreamThrow
  \/ \E n \in BOOLEAN : HandleResponse(n)
  \/ \E m \in {<<"h", "i">>, IdAT} : NewTurn(m)

SpecTurns == TurnsInit /\ [][TurnsNext]_vars

\* server a listing b-t before t, both mentioned: detectMCPTools gives the
\* ids in catalog order
DispatchRegistry ==
  [tools |-> [n \in ServerNames |-> IF n = ServerA THEN Entry(<<ToolBT, ToolT>>)
                                     ELSE NoEntry],
   clients |-> {ServerA}, disabled |-> {}]

DispatchInit == TurnStart(DispatchRegistry, IdAT \o <<" ">> \o IdABT)

SpecDispatch == DispatchInit /\ [][PassNext]_vars

\* the tools picker's handleSave: mcpDisabledTools and mcpAlwaysSendTools
\* written together; ids are the picker's tools switched off
HandleSave(ids, alwaysSendTools) ==
  /\ disabledTools' = ids
  /\ mcpAlwaysSendTools' = alwaysSendTools
  /\ lastOp' = Op("handleSave", <<>>, "ok", NoRequest)
  /\ UNCHANGED <<servers, clients, transports, tools, resources>>
  /\ UNCHANGED <<codecVars, turnVars, auxVars>>

\* turns of a model that supports tool binding, taken under every setting
\* the picker can save
SettingsNext ==
  \/ \E ids \in SUBSET CatalogIds(tools), a \in BOOLEAN : HandleSave(ids, a)
  \/ StartTurn("ok")
  \/ Stream1End
  \/ StreamThrow
  \/ HandleResponse(FALSE)

SpecSettings == TurnInit /\ [][SettingsNext]_vars

\* ------------------------------------- registry calls, await by await
\* an async call suspended at an await. op: the call ("connect",
\* "initialize", "disconnect", "remove"); name: the server it works on;
\* pc: the await it waits at; i: initialize's position in settings.mcpServers;
\* hadClient, hadTransport: what disconnectFromServer read at lines 115-116;
\* overtaken: for a connect, it was entered while a removal of the name was
\* suspended; for a removal, such a connect has stored its handles since
Task(id, op, name, at, i) ==
  [id |-> id, op |-> op, name |-> name, pc |-> at, i |-> i,
   toolsPending |-> FALSE, resPending |-> FALSE,
   hadClient |-> FALSE, hadTransport |-> FALSE, overtaken |-> FALSE]

TaskIds == 1..MaxTasks
FreeId == CHOOSE k \in TaskIds :
            /\ \A t \in tasks : t.id # k
            /\ \A j \in TaskIds : j < k => \E t \in tasks : t.id = j
CanSuspend == Cardinality(tasks) < MaxTasks

\* connectToServer(name) up to its first await: the config lookup (70-73),
\* the new transport and client (77-91), client.connect (93)
ConnectStart(name) ==
  /\ connectCalls[name] < MaxConnectCalls
  /\ connectCalls' = [connectCalls EXCEPT ![name] = @ + 1]
  /\ IF servers[name] = NoConfig
       THEN /\ lastOp' = Op("connectStart", name, "NotFound", NoRequest)
            /\ UNCHANGED tasks
       ELSE /\ CanSuspend
            /\ tasks' = tasks \cup
                 {[Task(FreeId, "connect", name, "handshake", 0) EXCEPT
                     !.overtaken = \E u \in tasks : u.op = "remove" /\ u.name = name]}
            /\ lastOp' = Op("connectStart", name, "pending", NoRequest)
  /\ UNCHANGED <<regVars, codecVars, turnVars, settingVars, passVars, turnNo,
                 mcpServers, initialized, sessions>>

\* the call that awaited a connect goes on: connectToServer's caller is done,
\* initialize's loop takes its next turn (its catch at 39-41 swallows a throw)
ConnectDone(t) ==
  IF t.op = "initialize"
    THEN (tasks \ {t}) \cup {[t EXCEPT !.pc = "loop", !.toolsPending = FALSE,
                                       !.resPending = FALSE]}
    ELSE tasks \ {t}

\* client.connect settles (93): on success the handles are stored (95-96)
\* over whatever the maps held, and both loads send their list request
\* (99-102; 145-151, 181-187)
ConnectHandshake(t, ok) ==
  /\ t \in tasks /\ t.pc = "handshake"
  /\ IF ok
       THEN /\ clients' = clients \cup {t.name}
            /\ transports' = transports \cup {t.name}
            /\ sessions' = [sessions EXCEPT ![t.name] = @ + 1]
            /\ tasks' = {IF u = t
                           THEN [u EXCEPT !.pc = "loading", !.toolsPending = TRUE,
                                          !.resPending = TRUE]
                         ELSE IF u.op = "remove" /\ u.name = t.name /\ t.overtaken
                           THEN [u EXCEPT !.overtaken = TRUE]
                         ELSE u : u \in tasks}
            /\ lastOp' = Op("handshake", t.name, "ok", NoRequest)
       ELSE /\ tasks' = ConnectDone(t)
            /\ lastOp' = Op("handshake", t.name, "ConnectionError", NoRequest)
            /\ UNCHANGED <<clients, transports, sessions>>
  /\ UNCHANGED <<servers, tools, resources, disabledTools>>
  /\ UNCHANGED <<codecVars, turnVars, settingVars, passVars, turnNo,
                 mcpServers, initialized, connectCalls>>

\* client.listTools settles (151-174): the catalog entry is written for the
\* name the load was started with
LoadToolsReturn(t, resp) ==
  /\ t \in tasks /\ t.pc = "loading" /\ t.toolsPending
  /\ tools' = [tools EXCEPT ![t.name] = LoadEntry(@, resp)]
  /\ tasks' = IF t.resPending
                THEN (tasks \ {t}) \cup {[t EXCEPT !.toolsPending = FALSE]}
                ELSE ConnectDone(t)
  /\ lastOp' = Op("toolsLoaded", t.name, resp.kind, NoRequest)
  /\ UNCHANGED <<servers, clients, transports, resources, disabledTools>>
  /\ UNCHANGED <<codecVars, turnVars, settingVars, passVars, turnNo,
                 mcpServers, initialized, sessions, connectCalls>>

\* client.listResources settles (187-208)
LoadResourcesReturn(t, resp) ==
  /\ t \in tasks /\ t.pc = "loading" /\ t.resPending
  /\ resources' = [resources EXCEPT ![t.name] = LoadEntry(@, resp)]
  /\ tasks' = IF t.toolsPending
                THEN (tasks \ {t}) \cup {[t EXCEPT !.resPending = FALSE]}
                ELSE ConnectDone(t)
  /\ lastOp' = Op("resourcesLoaded", t.name, resp.kind, NoRequest)
  /\ UNCHANGED <<servers, clients, transports, tools, disabledTools>>
  /\ UNCHANGED <<codecVars, turnVars, settingVars, passVars, turnNo,
                 mcpServers, initialized, sessions, connectCalls>>

\* disconnectFromServer(name) (op "disconnect"), or MCPToolsManager.removeServer
\* (op "remove"), which calls the registry's removeServer without awaiting it
\* and returns. With no handle to close nothing is awaited on a pending
\* request and the call has run to its end when the caller goes on; with a
\* handle it is suspended at the first close() (120, 129)
CloseStart(name, op) ==
  /\ IF name \in clients \/ name \in transports
       THEN /\ CanSuspend
            /\ tasks' = tasks \cup
                 {[Task(FreeId, op, name, "closing", 0) EXCEPT
                     !.hadClient = name \in clients,
                     !.hadTransport = name \in transports]}
            /\ lastOp' = Op(IF op = "remove" THEN "managerRemoveServer"
                                             ELSE "disconnectStart",
                            name, "pending", NoRequest)
            /\ UNCHANGED regVars
       ELSE /\ tools' = [tools EXCEPT ![name] = NoEntry]
            /\ resources' = [resources EXCEPT ![name] = NoEntry]
            /\ servers' = IF op = "remove" THEN [servers EXCEPT ![name] = NoConfig]
                                           ELSE servers
            /\ lastOp' = Op(IF op = "remove" THEN "managerRemoveServer"
                                             ELSE "disconnectStart",
                            name, "ok", NoRequest)
            /\ UNCHANGED <<clients, transports, disabledTools, tasks>>
  /\ UNCHANGED <<codecVars, turnVars, settingVars, passVars, turnNo,
                 mcpServers, initialized, sessions, connectCalls>>

\* the close() calls settle: the session read at 115 is closed, the map
\* entries of the name are deleted (121, 130, 136-137), and a removal goes on
\* to 61-63
CloseFinish(t, closeClientOk, closeTransportOk) ==
  /\ t \in tasks /\ t.pc = "closing"
  /\ clients' = IF t.hadClient /\ closeClientOk THEN clients \ {t.name} ELSE clients
  /\ sessions' = IF t.hadClient /\ closeClientOk /\ sessions[t.name] > 0
                   THEN [sessions EXCEPT ![t.name] = @ - 1] ELSE sessions
  /\ transports' = IF t.hadTransport /\ closeTransportOk
                     THEN transports \ {t.name} ELSE transports
  /\ tools' = [tools EXCEPT ![t.name] = NoEntry]
  /\ resources' = [resources EXCEPT ![t.name] = NoEntry]
  /\ servers' = IF t.op = "remove" THEN [servers EXCEPT ![t.name] = NoConfig]
                                   ELSE servers
  /\ tasks' = tasks \ {t}
  /\ lastOp' = [Op(IF t.op = "remove" THEN "removeFinished" ELSE "disconnectFinished",
                   t.name, "ok", NoRequest) EXCEPT
                  !.closes = [client |-> CloseOutcome(t.hadClient, closeClientOk),
                              transport |-> CloseOutcome(t.hadTransport, closeTransportOk)],
                  !.log = IF t.overtaken THEN <<"overtaken">> ELSE <<>>]
  /\ UNCHANGED <<disabledTools, codecVars, turnVars, settingVars, passVars, turnNo,
                 mcpServers, initialized, connectCalls>>

\* what the load requests in flight may be answered with
AsyncToolResponses == ListOutcomes({<<ToolT>>})

\* the server names the calls below are made with
AsyncServers == {ServerA}

AsyncNext ==
  \/ \E n \in AsyncServers : AddServer(n)
  \/ \E n \in AsyncServers : ConnectStart(n)
  \/ \E t \in tasks, ok \in BOOLEAN : ConnectHandshake(t, ok)
  \/ \E t \in tasks, resp \in AsyncToolResponses : LoadToolsReturn(t, resp)
  \/ \E t \in tasks, resp \in ResourceOutcomes : LoadResourcesReturn(t, resp)
  \/ \E n \in AsyncServers, op \in {"disconnect", "remove"} : CloseStart(n, op)
  \/ \E t \in tasks, c \in BOOLEAN, tr \in BOOLEAN : CloseFinish(t, c, tr)

SpecAsync == RegInit /\ [][AsyncNext]_vars

\* ------------------------------------------ MCPToolsManager.initialize
\* the first enabled entry of list at or after position from; 0 when none
\* (the loop header and the test at 34-35)
NextEnabled(list, from) ==
  LET js == {j \in from..Len(list) : list[j].enabled}
  IN IF js = {} THEN 0 ELSE CHOOSE j \in js : \A k \in js : j <= k

\* initialize's loop from position from to its next await: the first enabled
\* server is added and connectToServer is entered (36-38); with none left
\* the flag is set (45)
InitSegment(rest, id, from) ==
  LET j == NextEnabled(mcpServers, from)
  IN IF j = 0
       THEN /\ initialized' = TRUE
            /\ tasks' = rest
            /\ UNCHANGED <<servers, connectCalls>>
       ELSE /\ servers' = [servers EXCEPT ![mcpServers[j].name] = "u1"]
            /\ connectCalls' = [connectCalls EXCEPT ![mcpServers[j].name] = @ + 1]
            /\ tasks' = rest \cup
                 {Task(id, "initialize", mcpServers[j].name, "handshake", j)}
            /\ UNCHANGED initialized

\* initialize() is called: the guard at 26-28, then the loop's first stretch
InitializeStart ==
  /\ IF initialized
       THEN /\ lastOp' = Op("initialize", <<>>, "skipped", NoRequest)
            /\ UNCHANGED <<servers, connectCalls, tasks, initialized>>
       ELSE /\ CanSuspend
            /\ InitSegment(tasks, FreeId, 1)
            /\ lastOp' = Op("initialize", <<>>, "started", NoRequest)
  /\ UNCHANGED <<clients, transports, tools, resources, disabledTools>>
  /\ UNCHANGED <<codecVars, turnVars, settingVars, passVars, turnNo,
                 mcpServers, sessions>>

\* the awaited connectToServer has settled: the loop goes on after it
InitializeResume(t) ==
  /\ t \in tasks /\ t.op = "initialize" /\ t.pc = "loop"
  /\ InitSegment(tasks \ {t}, t.id, t.i + 1)
  /\ lastOp' = Op("initialize", t.name, "resumed", NoRequest)
  /\ UNCHANGED <<clients, transports, tools, resources, disabledTools>>
  /\ UNCHANGED <<codecVars, turnVars, settingVars, passVars, turnNo,
                 mcpServers, sessions>>

ServerConfig(n, e) == [name |-> n, enabled |-> e]
\* settings.mcpServers: two enabled servers, or a disabled one and an enabled
SettingsLists ==
  {<<ServerConfig(ServerA, TRUE), ServerConfig(ServerAB, TRUE)>>,
   <<ServerConfig(ServerA, FALSE), ServerConfig(ServerAB, TRUE)>>}

InitializeInit ==
  /\ RegEmpty
  /\ lastOp = NoOp
  /\ CodecIdle
  /\ TurnIdle
  /\ mcpServers \in SettingsLists
  /\ initialized = FALSE
  /\ tasks = {}
  /\ sessions = [n \in ServerNames |-> 0]
  /\ connectCalls = [n \in ServerNames |-> 0]

InitializeNext ==
  \/ InitializeStart
  \/ \E t \in tasks : InitializeResume(t)
  \/ \E t \in tasks, ok \in BOOLEAN : ConnectHandshake(t, ok)
  \/ \E t \in tasks, resp \in AsyncToolResponses : LoadToolsReturn(t, resp)
  \/ \E t \in tasks, resp \in ResourceOutcomes : LoadResourcesReturn(t, resp)

SpecInitialize == InitializeInit /\ [][InitializeNext]_vars

\* -------------------------------------------------- codec specification
Names == SeqsUpTo(Alphabet, MaxNameLen)

CodecInit ==
  /\ cPc = "start"
  /\ cServer \in Names
  /\ cLocal \in Names
  /\ cId = <<>>
  /\ cDecoded = NoMatch
  /\ RegEmpty
  /\ lastOp = NoOp
  /\ TurnIdle
  /\ SchedIdle

\* getAllMCPTools builds the id of a catalog entry
Encode ==
  /\ cPc = "start"
  /\ cId' = CanonicalId(cServer, cLocal)
  /\ cPc' = "encoded"
  /\ UNCHANGED <<cServer, cLocal, cDecoded, regVars, lastOp, turnVars, settingVars, auxVars>>

\* executeMCPTool parses the id
Decode ==
  /\ cPc = "encoded"
  /\ cDecoded' = ParseToolName(cId)
  /\ cPc' = "decoded"
  /\ UNCHANGED <<cServer, cLocal, cId, regVars, lastOp, turnVars, settingVars, auxVars>>

CodecNext == Encode \/ Decode

SpecCodec == CodecInit /\ [][CodecNext]_vars

HasDash(s) == \E i \in 1..Len(s) : s[i] = Dash

\* ================================================================ claims

\* the turn went on to the follow-up stream
Finished == pc \in {"done", "handled"}
TurnContinued == pc = "stream2" \/ (Finished /\ Len(streamCalls) = 2)

\* the stream index of the resolved call with this id
CallIdx(id) == (CHOOSE c \in SeqRange(toolCallsBuffer) : c.id = id).idx

\* C1: once the cancellation signal is set during the first stream, no later
\* event is processed (the text stays what was buffered), no tool call is
\* executed and no second generation pass is started.
C1_CancelStopsTurn ==
  cancelledInPass1 =>
    /\ fullResponse = textAtAbort
    /\ execRounds = 0
    /\ requests = <<>>
    /\ Len(streamCalls) = 1

\* C2: the transport is invoked once when the first pass resolves no call and
\* twice when it resolves one or more; tools are executed in at most one
\* round, between the two passes; nothing in the second pass starts another.
C2_OneContinuation ==
  /\ Len(streamCalls) <= 2
  /\ execRounds <= 1
  /\ \A i \in 1..Len(requests) : requests[i].pass = 1
  /\ (pc = "exec" => execRounds = 1 /\ Len(streamCalls) = 1)
  /\ (pc = "stream2" => execRounds = 1 /\ Len(streamCalls) = 2)
  /\ (Finished => Len(streamCalls) = IF execRounds = 1 THEN 2 ELSE 1)
  /\ (Finished /\ outcome = "returned"
        => Len(streamCalls) = IF Len(toolCallsBuffer) > 0 THEN 2 ELSE 1)

C2_Witness ==
  /\ pc = "done"
  /\ outcome = "returned"
  /\ Len(streamCalls) = 2
  /\ toolEventInPass2
  /\ Len(requests) = 1

\* C3: executeMCPTool on a disabled id fails with the tool-disabled error and
\* sends no call-tool request, whatever the state of the id's server and
\* whether or not the id parses.
C3_DisabledPrecedence ==
  (lastOp.op = "execute" /\ lastOp.arg \in disabledTools)
    => (lastOp.result = "ToolDisabled" /\ ~lastOp.request.sent)

C3_Witness ==
  /\ lastOp.op = "execute"
  /\ lastOp.arg \in disabledTools
  /\ ParseToolName(lastOp.arg).ok
  /\ ParseToolName(lastOp.arg).serverName \in clients
  /\ \E id \in disabledTools : ~ParseToolName(id).ok

\* C4: for a non-empty server name without '-' and a non-empty local name,
\* parsing the catalog's canonical id gives back (serverName, localName).
C4_RoundTrip ==
  (cPc = "decoded" /\ cServer # <<>> /\ cLocal # <<>> /\ ~HasDash(cServer))
    => (cDecoded.ok /\ cDecoded.serverName = cServer /\ cDecoded.toolName = cLocal)

C4_Witness ==
  /\ cPc = "decoded"
  /\ cServer = <<"a">>
  /\ cLocal = <<"-", "b">>
  /\ cDecoded.toolName = <<"-", "b">>

\* C5: every tool in the catalog of a connected server has exactly one entry
\* in getAllMCPTools, and executing that entry's id (enabled, tool name not
\* empty) sends the call-tool request to that server with that tool name.
C5_DispatchToCatalogServer ==
  LET all == GetAllMCPTools(tools)
  IN /\ \A sn \in clients : \A j \in 1..Len(tools[sn].list) :
          Cardinality({i \in 1..Len(all) :
                         all[i].serverName = sn
                           /\ all[i].localName = tools[sn].list[j]}) = 1
     /\ lastOp.op = "execute" =>
          \A i \in 1..Len(all) :
            (/\ all[i].name = lastOp.arg
             /\ all[i].serverName \in clients
             /\ all[i].name \notin disabledTools
             /\ all[i].localName # <<>>)
              => lastOp.request = Request(all[i].serverName, all[i].localName)

\* C6: after the tool round the conversation holds one assistant message
\* with the call requests, then one tool message per resolved call carrying
\* that call's id; a call that did not get a provider result has an error
\* payload; failures stop neither the other calls nor the second pass.
C6_ResultPerCall ==
  /\ (execRounds = 1 /\ pc # "exec") => TurnContinued
  /\ TurnContinued =>
       /\ Len(messages) = 1 + Len(toolCallsBuffer)
       /\ messages[1].role = "assistant"
       /\ messages[1].tool_calls = toolCallsBuffer
       /\ streamCalls[2].messages = messages
       /\ \A i \in 1..Len(toolCallsBuffer) :
            /\ messages[i + 1].role = "tool"
            /\ messages[i + 1].tool_call_id = toolCallsBuffer[i].id
            /\ messages[i + 1].payload.error
                 <=> ~(\E j \in 1..Len(requests) :
                         requests[j].call = i /\ requests[j].answer = "ok")

C6_Witness ==
  /\ TurnContinued
  /\ Len(toolCallsBuffer) = 2
  /\ messages[2].payload.error
  /\ ~messages[3].payload.error
  /\ Len(requests) = 2

\* C7: the tool-result messages are in the stream index order of the calls
\* they answer, whatever the arrival order of the fragments.
C7_IndexOrder ==
  TurnContinued =>
    \A p, q \in 1..Len(toolCallsBuffer) :
      (p < q /\ toolCallsBuffer[p].idx >= 0 /\ toolCallsBuffer[q].idx >= 0)
        => CallIdx(messages[p + 1].tool_call_id) < CallIdx(messages[q + 1].tool_call_id)

\* C8: the calls of one pass run concurrently: every request after the first
\* is issued while an earlier one is still unanswered, and the turn goes on
\* only when every request has been answered.
C8_ConcurrentFanOut ==
  /\ \A j \in 2..Len(requests) : requests[j].overlap
  /\ TurnContinued => \A j \in 1..Len(requests) : requests[j].answer # "pending"

\* C9: the second generation call has no tools bound and is given the
\* conversation with the assistant tool-call message and the tool results.
C9_FollowUpUnbound ==
  Len(streamCalls) = 2 =>
    (streamCalls[2].tools = <<>> /\ streamCalls[2].messages = messages)

Forgotten(sv, cl, tl, rs, n) ==
  sv[n] = NoConfig /\ tl[n] = NoEntry /\ rs[n] = NoEntry /\ ~IsServerConnected(cl, n)

\* C12: connectToServer fails with not-found when no config is stored and
\* with the connection error when the handshake fails, and a failed connect
\* leaves configs, handles and catalogs exactly as they were.
C12_FailedConnectKeepsRegistry ==
  [][lastOp'.op = "connect" =>
       LET n == lastOp'.arg
       IN /\ servers[n] = NoConfig => lastOp'.result = "NotFound"
          /\ (servers[n] # NoConfig /\ ConnectToServer(n, FALSE, ListError, ListError))
               => lastOp'.result = "ConnectionError"
          /\ lastOp'.result \in {"NotFound", "ConnectionError"} => UNCHANGED regVars]_vars

C12_Witness ==
  /\ lastOp.op = "connect"
  /\ lastOp.result = "ConnectionError"
  /\ lastOp.arg \in clients
  /\ tools[lastOp.arg] = Entry(<<ToolT>>)

\* C13: after a connectToServer that succeeded and whose list-tools request
\* was answered with a tool list, the server is connected and getServerTools
\* gives that list.
C13_ConnectPopulatesCatalog ==
  [][(lastOp'.op = "connect" /\ lastOp'.result = "ok") =>
       LET n == lastOp'.arg
       IN /\ IsServerConnected(clients', n)
          /\ \A l \in ToolLists, rr \in ResourceOutcomes :
               ConnectToServer(n, TRUE, [kind |-> "list", list |-> l], rr)
                 => GetServerTools(tools', n) = l]_vars

C13_Witness ==
  /\ lastOp.op = "connect"
  /\ lastOp.result = "ok"
  /\ IsServerConnected(clients, lastOp.arg)
  /\ GetServerTools(tools, lastOp.arg) = <<ToolT, ToolEmpty>>

\* C14: after disconnectFromServer(name) the server is not connected,
\* however the two close() calls ended.
C14_DisconnectedAfterDisconnect ==
  lastOp.op = "disconnect" => ~IsServerConnected(clients, lastOp.arg)

\* C15: disconnectFromServer never raises, calls close() on every handle it
\* finds (a handle still registered afterwards is one whose close() failed,
\* whatever the other close() did) and leaves no catalog entry for the name.
C15_DisconnectAttemptsBoth ==
  lastOp.op = "disconnect" =>
    LET n == lastOp.arg
    IN /\ lastOp.result = "ok"
       /\ tools[n] = NoEntry
       /\ resources[n] = NoEntry
       /\ lastOp.closes.client # "skipped" /\ lastOp.closes.transport # "skipped"
       /\ (n \in clients <=> lastOp.closes.client = "failed")
       /\ (n \in transports <=> lastOp.closes.transport = "failed")

C15_Witness ==
  /\ lastOp.op = "disconnect"
  /\ lastOp.closes = [client |-> "failed", transport |-> "closed"]
  /\ lastOp.arg \notin transports
  /\ tools[lastOp.arg] = NoEntry

\* C16: after disconnectAll the registry holds no config, no catalog entry
\* and no connected server, and a disconnectAll right after another one
\* changes nothing.
C16_DisconnectAllClears ==
  [][lastOp'.op = "disconnectAll" =>
       /\ \A n \in ServerNames : Forgotten(servers', clients', tools', resources', n)
       /\ lastOp.op = "disconnectAll" => UNCHANGED regVars]_vars

\* C17: removeServer on a name without a stored config leaves the registry
\* unchanged; on a known name it ends without error and leaves no config, no
\* catalog entry and no connection for it.
C17_RemoveServerForgets ==
  [][lastOp'.op = "removeServer" =>
       LET n == lastOp'.arg
       IN /\ lastOp'.result = "ok"
          /\ IF servers[n] = NoConfig THEN UNCHANGED regVars
             ELSE Forgotten(servers', clients', tools', resources', n)]_vars

\* C18: addServer stores the config under its name and touches nothing else
\* (connections included); adding a config that is already stored changes
\* nothing, so the name has one entry however often it is added.
C18_AddServerStoresOnly ==
  [][lastOp'.op = "addServer" =>
       LET n == lastOp'.arg
           known == {m \in ServerNames : servers[m] # NoConfig}
       IN /\ servers'[n] = "u1"
          /\ {m \in ServerNames : servers'[m] # NoConfig} = known \cup {n}
          /\ UNCHANGED <<clients, transports, tools, resources, disabledTools>>
          /\ servers[n] = "u1" => UNCHANGED regVars]_vars

C18_Witness ==
  /\ lastOp.op = "addServer"
  /\ servers[lastOp.arg] = "u1"
  /\ ~IsServerConnected(clients, lastOp.arg)
  /\ clients # {}

\* C19: testConnection changes no config, handle or catalog of the registry,
\* however the handshake, the probe and the close() calls end.
C19_TestConnectionFrame ==
  [][lastOp'.op = "testConnection" => UNCHANGED regVars]_vars

C19_Witness ==
  /\ lastOp.op = "testConnection"
  /\ lastOp.result = "true"
  /\ clients = {ServerAB}
  /\ servers[ServerA] = NoConfig

\* C20: when testConnection returns after a successful handshake, and no
\* close() call failed, its throwaway session and transport are closed,
\* whatever the catalog probe answered.
C20_ThrowawayClosed ==
  (/\ lastOp.op = "testConnection"
   /\ lastOp.closes.client \notin {"none", "failed"}
   /\ lastOp.closes.transport # "failed")
    => lastOp.closes = [client |-> "closed", transport |-> "closed"]

\* C11: when a turn that executed tools has been handled, the saved context
\* is the tool-result block (one entry per tool result of the turn) followed
\* by the answer, the message shown is the answer alone, and the runner holds
\* no tool results.
C11_ToolContextSavedAndCleared ==
  (pc = "handled" /\ Len(requests) > 0) =>
    /\ savedContext.saved
    /\ savedContext.toolResultsText
         = ToolResultsText(SubSeq(messages, 2, Len(messages)))
    /\ Len(savedContext.toolResultsText) = Len(toolResults)
    /\ savedContext.response = fullResponse
    /\ shownMessages = <<[message |-> fullResponse, isErrorMessage |-> FALSE]>>
    /\ lastToolResults = <<>>

\* C21 (as amended): testConnection never raises; it returns false when the
\* handshake fails, and true when the handshake succeeds, the probe succeeds
\* or reports method-not-supported, and no close() call fails.
C21_TestConnectionBoolean ==
  lastOp.op = "testConnection" =>
    /\ lastOp.result \in {"true", "false"}
    /\ lastOp.log[1] = "connectFailed" => lastOp.result = "false"
    /\ (/\ lastOp.log[1] = "connected"
        /\ lastOp.log[2] \in {"ok", "methodNotFound"}
        /\ lastOp.closes.client # "failed"
        /\ lastOp.closes.transport # "failed") => lastOp.result = "true"

C21_Witness ==
  /\ lastOp.op = "testConnection"
  /\ lastOp.log = <<"connected", "methodNotFound">>
  /\ lastOp.closes = [client |-> "closed", transport |-> "closed"]
  /\ lastOp.result = "true"

\* C21 as written: testConnection returns true whenever the handshake
\* succeeds and the probe succeeds or reports method-not-supported.
C21_TrueWheneverProbePasses ==
  (/\ lastOp.op = "testConnection"
   /\ lastOp.log[1] = "connected"
   /\ lastOp.log[2] \in {"ok", "methodNotFound"}) => lastOp.result = "true"

\* C22: a method-not-found answer to the tool-list or resource-list request
\* records the empty list for that capability, the other capability is
\* loaded from its own answer, and the server is connected afterwards, both
\* in connectToServer (which succeeds) and in refreshAllTools.
C22_NotFoundRecordsEmpty ==
  [][/\ (lastOp'.op = "connect" /\ lastOp'.result = "ok") =>
          LET n == lastOp'.arg
          IN \A tr \in ListOutcomes(ToolLists), rr \in ListOutcomes(ResourceLists) :
               (/\ ConnectToServer(n, TRUE, tr, rr)
                /\ "methodNotFound" \in {tr.kind, rr.kind})
                 => /\ IsServerConnected(clients', n)
                    /\ tr.kind = "methodNotFound" => tools'[n] = Entry(<<>>)
                    /\ rr.kind = "methodNotFound" => resources'[n] = Entry(<<>>)
                    /\ tr.kind = "list" => tools'[n] = Entry(tr.list)
                    /\ rr.kind = "list" => resources'[n] = Entry(rr.list)
     /\ lastOp'.op = "refreshAllTools" =>
          \A i \in 1..Len(lastOp'.log) :
            LET e == lastOp'.log[i]
            IN "methodNotFound" \in {e.tools.kind, e.resources.kind}
                 => /\ IsServerConnected(clients', e.server)
                    /\ e.tools.kind = "methodNotFound" => tools'[e.server] = Entry(<<>>)
                    /\ e.resources.kind = "methodNotFound"
                         => resources'[e.server] = Entry(<<>>)
                    /\ e.tools.kind = "list" => tools'[e.server] = Entry(e.tools.list)
                    /\ e.resources.kind = "list"
                         => resources'[e.server] = Entry(e.resources.list)]_vars

C22_Witness ==
  /\ lastOp.op = "refreshAllTools"
  /\ \E i \in 1..Len(lastOp.log) :
       /\ lastOp.log[i].tools.kind = "methodNotFound"
       /\ lastOp.log[i].resources.kind = "list"
       /\ tools[lastOp.log[i].server] = Entry(<<>>)
       /\ resources[lastOp.log[i].server] = Entry(<<"r">>)
       /\ IsServerConnected(clients, lastOp.log[i].server)

\* C23: a list request that fails with any error other than method-not-found
\* leaves the catalog entry of that capability (or its absence) exactly as it
\* was, and neither the connect nor the refresh raises.
C23_OtherErrorKeepsEntry ==
  [][/\ (lastOp'.op = "connect" /\ lastOp'.result = "ok") =>
          LET n == lastOp'.arg
          IN \A tr \in ListOutcomes(ToolLists), rr \in ListOutcomes(ResourceLists) :
               ConnectToServer(n, TRUE, tr, rr)
                 => /\ tr.kind = "error" => tools'[n] = tools[n]
                    /\ rr.kind = "error" => resources'[n] = resources[n]
     /\ lastOp'.op = "refreshAllTools" =>
          /\ lastOp'.result = "ok"
          /\ \A i \in 1..Len(lastOp'.log) :
               LET e == lastOp'.log[i]
               IN /\ e.tools.kind = "error" => tools'[e.server] = tools[e.server]
                  /\ e.resources.kind = "error"
                       => resources'[e.server] = resources[e.server]]_vars

C23_Witness ==
  /\ lastOp.op = "refreshAllTools"
  /\ \E i \in 1..Len(lastOp.log) :
       /\ lastOp.log[i].tools.kind = "error"
       /\ lastOp.log[i].resources.kind = "error"
       /\ tools[lastOp.log[i].server] = Entry(<<ToolT, ToolEmpty>>)
       /\ resources[lastOp.log[i].server] = NoEntry

\* C24: refreshAllTools sends its two list requests to every connected
\* server and to no other, never raises, and stores every list a server
\* answered with, whatever the requests to the other servers came to.
C24_RefreshEveryServer ==
  [][lastOp'.op = "refreshAllTools" =>
       /\ lastOp'.result = "ok"
       /\ {lastOp'.log[i].server : i \in 1..Len(lastOp'.log)} = clients
       /\ \A i \in 1..Len(lastOp'.log) :
            LET e == lastOp'.log[i]
            IN /\ e.tools.kind = "list" => GetServerTools(tools', e.server) = e.tools.list
               /\ e.resources.kind = "list"
                    => resources'[e.server] = Entry(e.resources.list)]_vars

C24_Witness ==
  /\ lastOp.op = "refreshAllTools"
  /\ Len(lastOp.log) = 2
  /\ lastOp.log[1].tools.kind = "error"
  /\ lastOp.log[2].tools.kind = "list"
  /\ tools[lastOp.log[1].server] = NoEntry
  /\ GetServerTools(tools, lastOp.log[2].server) = <<ToolT>>

\* C25: executeMCPTool on a string that is no canonical id and is not
\* disabled fails with invalid-format, whether or not any server is
\* connected, and sends no request.
C25_MalformedIdRejected ==
  (/\ lastOp.op = "execute"
   /\ ~ParseToolName(lastOp.arg).ok
   /\ lastOp.arg \notin disabledTools)
    => lastOp.result = "InvalidFormat" /\ lastOp.request = NoRequest

C25_Witness ==
  /\ lastOp.op = "execute"
  /\ lastOp.arg \in Malformed
  /\ lastOp.result = "InvalidFormat"
  /\ clients = {}

\* C26: executeMCPTool on a canonical id that is not disabled and whose
\* server (as the id is parsed) has no live handle fails with
\* server-not-connected and sends no call-tool request.
C26_UnconnectedServerRejected ==
  (/\ lastOp.op = "execute"
   /\ ParseToolName(lastOp.arg).ok
   /\ lastOp.arg \notin disabledTools
   /\ ~IsServerConnected(clients, ParseToolName(lastOp.arg).serverName))
    => lastOp.result = "ServerNotConnected" /\ lastOp.request = NoRequest

C26_Witness ==
  /\ lastOp.op = "execute"
  /\ lastOp.result = "ServerNotConnected"
  /\ servers[ParseToolName(lastOp.arg).serverName] # NoConfig
  /\ lastOp.arg \in CatalogIds(tools)
  /\ clients # {}

\* C27: getEnabledMCPTools returns exactly the entries of getAllMCPTools
\* whose canonical id is not in the disabled set.
C27_EnabledExcludesDisabled ==
  GetEnabledMCPTools(tools, disabledTools)
    = SelectSeq(GetAllMCPTools(tools), LAMBDA e : e.name \notin disabledTools)

\* C28: MCPToolsManager.addServer tests the connection first, then stores
\* the config, then connects; when the test fails it rejects with
\* 'Connection test failed' after the test alone, the registry unchanged.
C28_ManagerTestsFirst ==
  [][lastOp'.op = "managerAddServer" =>
       /\ lastOp'.log \in {<<"testConnection">>,
                           <<"testConnection", "addServer", "connectToServer">>}
       /\ lastOp'.result = "ConnectionTestFailed"
            => lastOp'.log = <<"testConnection">> /\ UNCHANGED regVars
       /\ lastOp'.result # "ConnectionTestFailed"
            => /\ Len(lastOp'.log) = 3
               /\ servers'[lastOp'.arg] # NoConfig
       /\ lastOp'.result = "ok" => IsServerConnected(clients', lastOp'.arg)]_vars

C28_Witness ==
  /\ lastOp.op = "managerAddServer"
  /\ lastOp.result = "ConnectionTestFailed"
  /\ servers[lastOp.arg] = NoConfig
  /\ ~IsServerConnected(clients, lastOp.arg)

\* C29: when generation raised during a turn, the turn once handled has
\* shown an error message, and the end of run is never blocked: handling is
\* possible in every state where the turn has stopped.
C29_ErrorShownBeforeTurnEnds ==
  /\ (pc = "handled" /\ outcome = "threw") =>
       \E i \in 1..Len(shownMessages) :
         shownMessages[i] = [message |-> ErrorMessage, isErrorMessage |-> TRUE]
  /\ pc = "done" => ENABLED HandleResponse(FALSE)

C29_Witness ==
  /\ pc = "handled"
  /\ outcome = "threw"
  /\ Len(requests) > 0
  /\ shownMessages = <<[message |-> ErrorMessage, isErrorMessage |-> TRUE]>>

\* C30: when mcpAlwaysSendTools is on, every catalog tool that is not
\* disabled is among the tools bound to each generation call of a turn,
\* whatever the message mentions.
C30_AlwaysSendBindsEnabled ==
  mcpAlwaysSendTools =>
    \A k \in 1..Len(streamCalls) :
      \A id \in CatalogIds(tools) \ disabledTools :
        \E i \in 1..Len(streamCalls[k].tools) : streamCalls[k].tools[i].mcpToolName = id

\* the text of an id after the prefix, and the positions of its dashes from
\* position `from` on
AfterPrefix(id) == SubSeq(id, Len(Prefix) + 1, Len(id))
DashesFrom(rest, from) == {k \in from..Len(rest) : rest[k] = Dash}

\* C34 (as amended): for every id the parser accepts, the server name is the
\* text between the prefix and the first '-' that comes after at least one
\* character, and the local tool name is everything after that '-'.
C34_SplitAtFirstDashAfterServer ==
  (cPc = "decoded" /\ cDecoded.ok) =>
    LET rest == AfterPrefix(cId)
        k == SetMin(DashesFrom(rest, 2))
    IN /\ DashesFrom(rest, 2) # {}
       /\ cDecoded.serverName = SubSeq(rest, 1, k - 1)
       /\ cDecoded.toolName = SubSeq(rest, k + 1, Len(rest))

C34_Witness ==
  /\ cPc = "decoded"
  /\ cDecoded.ok
  /\ cServer = <<Dash, "a">>
  /\ cLocal = <<"b", Dash>>
  /\ cDecoded.serverName = <<Dash, "a">>

\* C34 as written: for every id the parser accepts, the server name is the
\* text between the prefix and the first '-' that follows the prefix, and
\* the local tool name is everything after that '-'.
C34_SplitAtFirstDash ==
  (cPc = "decoded" /\ cDecoded.ok) =>
    LET rest == AfterPrefix(cId)
        k == SetMin(DashesFrom(rest, 1))
    IN /\ cDecoded.serverName = SubSeq(rest, 1, k - 1)
       /\ cDecoded.toolName = SubSeq(rest, k + 1, Len(rest))

\* the fragments delivered by the chunks q, in arrival order
RECURSIVE FragmentsOf(_)
FragmentsOf(q) ==
  IF q = <<>> THEN <<>>
  ELSE (IF Head(q).tccDefined THEN Head(q).tcc ELSE <<>>) \o FragmentsOf(Tail(q))

\* the argument substrings of the fragments of stream index i, joined in
\* arrival order
RECURSIVE ArgsOf(_, _)
ArgsOf(fs, i) ==
  IF fs = <<>> THEN <<>>
  ELSE (IF Head(fs).index = i THEN Head(fs).args ELSE <<>>) \o ArgsOf(Tail(fs), i)

\* the first stream's loop is over
PassOver == pc \notin {"idle", "stream1"}

\* the accumulator entries that have a name, an argument text and an
\* argument text that parses
Resolvable(acc) ==
  {k \in 1..Len(acc) : /\ acc[k].name # <<>>
                       /\ acc[k].args # <<>>
                       /\ JSONParse(acc[k].args).ok}

\* C31: at every point of a pass the accumulator has one entry per stream
\* index seen, whose argument text is the concatenation, in arrival order,
\* of the argument substrings of that index's fragments; a call resolved from
\* fragments carries the parsed value of that concatenation.
C31_ArgsConcatenated ==
  LET fs == FragmentsOf(arrived)
  IN /\ \A k \in 1..Len(toolCallAccumulator) :
          toolCallAccumulator[k].args = ArgsOf(fs, toolCallAccumulator[k].index)
     /\ \A i \in Indices :
          Cardinality({k \in 1..Len(toolCallAccumulator) :
                         toolCallAccumulator[k].index = i})
            = IF \E j \in 1..Len(fs) : fs[j].index = i THEN 1 ELSE 0
     /\ (PassOver /\ toolCallAccumulator # <<>>) =>
          \A c \in 1..Len(toolCallsBuffer) :
            /\ JSONParse(ArgsOf(fs, toolCallsBuffer[c].idx)).ok
            /\ toolCallsBuffer[c].args
                 = JSONParse(ArgsOf(fs, toolCallsBuffer[c].idx)).value

C31_Witness ==
  /\ PassOver
  /\ arrived = <<FragmentChunk(Fragment(0, CallName(0), <<"1">>, NoId)),
                 FragmentChunk(Fragment(1, CallName(1), <<"{">>, CallId(1))),
                 FragmentChunk(Fragment(0, <<>>, <<"2">>, NoId))>>
  /\ \E c \in 1..Len(toolCallsBuffer) :
       /\ toolCallsBuffer[c].idx = 0
       /\ toolCallsBuffer[c].args = [type |-> "number", num |-> 12]

\* C32: when fragments were accumulated, the calls resolved at stream end
\* are exactly the accumulated indices with a name, an argument text and an
\* argument text that parses, each once; the others are dropped, and the
\* tool round produces one result per resolved call and none for a dropped
\* index.
C32_ResolvedAreParsable ==
  (PassOver /\ toolCallAccumulator # <<>>) =>
    LET acc == toolCallAccumulator
        good == Resolvable(acc)
    IN /\ Len(toolCallsBuffer) = Cardinality(good)
       /\ \A k \in good :
            \E c \in 1..Len(toolCallsBuffer) :
              /\ toolCallsBuffer[c].idx = acc[k].index
              /\ toolCallsBuffer[c].name = acc[k].name
       /\ \A c \in 1..Len(toolCallsBuffer) :
            \E k \in good : toolCallsBuffer[c].idx = acc[k].index
       /\ TurnContinued => Len(toolResults) = Cardinality(good)
       /\ (pc = "done" /\ good # {}) => TurnContinued

C32_Witness ==
  /\ TurnContinued
  /\ Len(toolCallAccumulator) = 2
  /\ Resolvable(toolCallAccumulator) = {2}
  /\ toolCallAccumulator[1].name # <<>>
  /\ toolCallAccumulator[1].args # <<>>
  /\ Len(toolResults) = 1

\* the whole calls with a name that the chunks q delivered, in arrival order
RECURSIVE WholeCallsOf(_)
WholeCallsOf(q) ==
  IF q = <<>> THEN <<>>
  ELSE SelectSeq(Head(q).tool_calls, LAMBDA tc : tc.name # <<>>)
         \o WholeCallsOf(Tail(q))

\* C33: after a pass without accumulated fragments the resolved calls are
\* the whole calls with a name that arrived, one each; after a pass with
\* accumulated fragments every resolved call comes from a fragment index,
\* one per index.
C33_WholeCallsOrFragments ==
  PassOver =>
    /\ toolCallAccumulator = <<>> =>
         /\ Len(toolCallsBuffer) = Len(WholeCallsOf(arrived))
         /\ \A c \in 1..Len(toolCallsBuffer) :
              toolCallsBuffer[c].name = WholeCallsOf(arrived)[c].name
    /\ toolCallAccumulator # <<>> =>
         /\ \A c \in 1..Len(toolCallsBuffer) : toolCallsBuffer[c].idx \in Indices
         /\ \A c, d \in 1..Len(toolCallsBuffer) :
              toolCallsBuffer[c].idx = toolCallsBuffer[d].idx => c = d

\* the mentioned ids whose decoded local tool name is n
MentionsOf(n) ==
  {i \in 1..Len(mentionedMCPTools) : /\ ParseToolName(mentionedMCPTools[i]).ok
                                     /\ ParseToolName(mentionedMCPTools[i]).toolName = n}

\* C35: every call-tool request of a turn goes to the server and local tool
\* name of a mentioned id whose decoded local name is the call's name; a
\* call whose name is no mentioned tool's local name causes no request and
\* gets the 'Tool not found' error result.
C35_DispatchByExactName ==
  /\ \A j \in 1..Len(requests) :
       LET call == toolCallsBuffer[requests[j].call]
       IN /\ requests[j].tool = call.name
          /\ \E i \in MentionsOf(call.name) :
               ParseToolName(mentionedMCPTools[i]).serverName = requests[j].server
  /\ \A c \in 1..Len(toolCallsBuffer) :
       MentionsOf(toolCallsBuffer[c].name) = {} =>
         /\ \A j \in 1..Len(requests) : requests[j].call # c
         /\ TurnContinued => messages[c + 1].payload = ErrorOutput("Tool not found")

\* C36: the context saved for a turn holds tool-result blocks for exactly
\* the tool results of that turn (none when the turn executed no tool),
\* whatever the earlier turns of the runner did.
C36_SavedResultsAreThisTurns ==
  (pc = "handled" /\ savedContext.saved) =>
    savedContext.toolResultsText = ToolResultsText(SubSeq(messages, 2, Len(messages)))

\* C37: at any time a server name has at most one open, unclosed session,
\* whatever sequence of addServer, connectToServer, disconnectFromServer and
\* removeServer was made, connectToServer on a connected name included
C37_OneSessionPerServer ==
  \A n \in ServerNames : sessions[n] <= 1

\* C38: in every reachable state, also while a catalog load overlaps a
\* disconnect or a removal of the same server, the tool and resource catalogs
\* have entries only for servers that are connected
C38_CatalogsOnlyForConnected ==
  \A n \in ServerNames : (tools[n].has \/ resources[n].has) => n \in clients

\* C39: when MCPToolsManager.removeServer(name) has returned the registry's
\* removal of name has finished, and no removal ends after a later connect
\* for the same name has stored its handles, taking the server away again
C39_RemovalDoneOnReturn ==
  /\ lastOp.op = "managerRemoveServer" =>
       ~\E t \in tasks : t.op = "remove" /\ t.name = lastOp.arg
  /\ lastOp.op = "removeFinished" => lastOp.log # <<"overtaken">>

\* C40: over any number of initialize calls, overlapping ones included,
\* connectToServer is entered at most once per enabled configured server, a
\* disabled server is never added or connected, and once the flag is set
\* every enabled server was tried, whether or not an earlier one failed
C40_InitializeConnectsOnce ==
  /\ \A n \in ServerNames : connectCalls[n] <= 1
  /\ \A j \in 1..Len(mcpServers) :
       ~mcpServers[j].enabled =>
          /\ servers[mcpServers[j].name] = NoConfig
          /\ connectCalls[mcpServers[j].name] = 0
  /\ initialized =>
       \A j \in 1..Len(mcpServers) :
          mcpServers[j].enabled => connectCalls[mcpServers[j].name] >= 1

====
